---- MODULE Spec2Model ----
(***************************************************************************)
(* The Janus Foundry: the node store (Dexie table `nodes`), the in-memory  *)
(* tree built from it, the handlers that mutate it, and the cross-reference*)
(* inference of io.ts.                                                     *)
(*                                                                         *)
(* Strings are TLA+ strings; a character is a string of length 1.          *)
(* A JavaScript Set or Map is a sequence without duplicates, because its   *)
(* iteration order (insertion order) is observable in the code.            *)
(***************************************************************************)
EXTENDS Integers, Sequences, FiniteSets, TLC

\* nodes:        the Dexie table `nodes` (committed contents)
\* tree:         the `tree` store of store.ts, as loadTree last set it
\* crossref:     the `crossref` store, as loadCrossref last set it
\* selectedNode: the `selectedNode` store: the id and parentId of the
\*               TreeNode object it holds (id Null: null)
\* last:         the handler that ran last, its inputs and what it returned
\* creating:     the createNode calls in flight, each with the point it has
\*               reached and the sibling count it has read
\* orrery:       the Orrery component: its neighborhoodDistance, the data it
\*               last handed to the graph and the queue of its last walk
\* running:      the handlers in flight, each with the await it has reached
\* notifications: the `notifications` store of notifications.ts
\* timers:       the ids that have an entry in the timers Map of
\*               NotificationDisplay
\* clock:        the reading of Date.now()
VARIABLES nodes, tree, crossref, selectedNode, last, creating,
          orrery, running, notifications, timers, clock

vars == <<nodes, tree, crossref, selectedNode, last, creating,
          orrery, running, notifications, timers, clock>>

\* What the specifications of the stores leave aside: the graph of the
\* Orrery, the handlers in flight and the notifications
side == <<orrery, running, notifications, timers, clock>>

(***************************************************************************)
(* Generic sequence helpers                                                *)
(***************************************************************************)
Range(s) == {s[i] : i \in 1..Len(s)}

Contains(s, x) == \E i \in 1..Len(s) : s[i] = x

\* Array.prototype.filter / Set insertion: keep the first occurrence only.
RECURSIVE DedupFrom(_, _, _)
DedupFrom(s, i, acc) ==
    IF i > Len(s) THEN acc
    ELSE LET next == IF Contains(acc, s[i]) THEN acc ELSE Append(acc, s[i])
         IN  IF Len(next) > 0 THEN DedupFrom(s, i + 1, next) ELSE next

Dedup(s) == DedupFrom(s, 1, <<>>)

RECURSIVE FlattenFrom(_, _)
FlattenFrom(ss, i) == IF i > Len(ss) THEN <<>> ELSE ss[i] \o FlattenFrom(ss, i + 1)

Flatten(ss) == FlattenFrom(ss, 1)

\* Array.prototype.sort is stable: Before(a, b) is "the comparator is
\* negative"; elements the comparator ties keep their order.  The element at
\* index i lands behind every element that sorts before it and every earlier
\* element it ties with.
StableSort(s, Before(_, _)) ==
    LET n == Len(s)
        rank == <<>> \o [i \in 1..n |->
                    Cardinality({j \in 1..n : Before(s[j], s[i])})
                    + Cardinality({j \in 1..(i - 1) :
                                     ~Before(s[i], s[j]) /\ ~Before(s[j], s[i])})
                    + 1]
    IN  <<>> \o [k \in 1..n |-> s[CHOOSE i \in 1..n : rank[i] = k]]

(***************************************************************************)
(* Characters and strings                                                  *)
(***************************************************************************)
\* The characters the model's texts use, in UTF-16 code unit order.
AsciiOrder == " -.0123456789ABCDEFGHIJKLMNOPQRSTUVWXYZ_abcdefghijklmnopqrstuvwxyz|"

UpperLetters == "ABCDEFGHIJKLMNOPQRSTUVWXYZ"
LowerLetters == "abcdefghijklmnopqrstuvwxyz"
Digits == "0123456789"

CharAt(s, i) == SubSeq(s, i, i)

CharsOf(s) == {CharAt(s, i) : i \in 1..Len(s)}

CharCode == [c \in CharsOf(AsciiOrder) |->
                CHOOSE i \in 1..Len(AsciiOrder) : CharAt(AsciiOrder, i) = c] @@ <<>>

LowerOf == [c \in CharsOf(UpperLetters) |->
                CharAt(LowerLetters, CHOOSE i \in 1..26 : CharAt(UpperLetters, i) = c)] @@ <<>>

\* \w of a JavaScript regular expression: [A-Za-z0-9_]
WordChars == CharsOf(UpperLetters) \cup CharsOf(LowerLetters) \cup CharsOf(Digits) \cup {"_"}

\* \s restricted to the model's characters
IsSpace(c) == c = " "

\* String.prototype.toLowerCase
RECURSIVE toLowerCaseFrom(_, _)
toLowerCaseFrom(s, i) ==
    IF i > Len(s) THEN ""
    ELSE LET c == CharAt(s, i)
         IN  (IF c \in DOMAIN LowerOf THEN LowerOf[c] ELSE c) \o toLowerCaseFrom(s, i + 1)

toLowerCase(s) == toLowerCaseFrom(s, 1)

\* .replace(/[^\w\s-]/g, ' ')
RECURSIVE ReplacePunctFrom(_, _)
ReplacePunctFrom(s, i) ==
    IF i > Len(s) THEN ""
    ELSE LET c == CharAt(s, i)
         IN  (IF c \in WordChars \/ IsSpace(c) \/ c = "-" THEN c ELSE " ")
                \o ReplacePunctFrom(s, i + 1)

ReplacePunct(s) == ReplacePunctFrom(s, 1)

\* .split(/\s+/): the maximal runs of non-space characters, in order; a text
\* that starts or ends with a space yields an empty first or last piece.
RECURSIVE SplitSpacesFrom(_, _, _, _)
SplitSpacesFrom(s, i, cur, acc) ==
    IF i > Len(s) THEN Append(acc, cur)
    ELSE LET c == CharAt(s, i)
         IN  IF IsSpace(c)
             THEN IF i > 1 /\ IsSpace(CharAt(s, i - 1))
                  THEN SplitSpacesFrom(s, i + 1, cur, acc)
                  ELSE SplitSpacesFrom(s, i + 1, "", Append(acc, cur))
             ELSE SplitSpacesFrom(s, i + 1, cur \o c, acc)

SplitSpaces(s) == SplitSpacesFrom(s, 1, "", <<>>)

\* String.prototype.includes
Includes(s, t) ==
    LET n == Len(t)
    IN  \E i \in 1..(Len(s) - n + 1) : SubSeq(s, i, i + n - 1) = t

\* .trim() for the space character
RECURSIVE TrimLeft(_)
TrimLeft(s) == IF Len(s) > 0 /\ IsSpace(CharAt(s, 1)) THEN TrimLeft(Tail(s)) ELSE s

RECURSIVE TrimRight(_)
TrimRight(s) ==
    IF Len(s) > 0 /\ IsSpace(CharAt(s, Len(s)))
    THEN TrimRight(SubSeq(s, 1, Len(s) - 1)) ELSE s

Trim(s) == TrimRight(TrimLeft(s))

\* The default comparison of Array.prototype.sort: by UTF-16 code units.
RECURSIVE StrLessFrom(_, _, _)
StrLessFrom(a, b, i) ==
    IF i > Len(a) THEN i <= Len(b)
    ELSE IF i > Len(b) THEN FALSE
    ELSE LET ca == CharCode[CharAt(a, i)]
             cb == CharCode[CharAt(b, i)]
         IN  IF ca < cb THEN TRUE
             ELSE IF ca > cb THEN FALSE
             ELSE StrLessFrom(a, b, i + 1)

StrLess(a, b) == StrLessFrom(a, b, 1)

SortStrings(s) == StableSort(s, StrLess)

(***************************************************************************)
(* io.ts: constants                                                        *)
(***************************************************************************)
\* parentId of a root.  The code tests parentId for truthiness, so null and
\* the empty string behave alike; no node id is empty.
Null == ""

\* COMMON_WORD_PERCENTILE_THRESHOLD = 0.10, as the divisor of Math.floor(n * 0.10)
COMMON_WORD_PERCENTILE_DIVISOR == 10
MIN_SHARED_KEYWORDS_THRESHOLD == 2
MAX_LINKS_PER_NODE == 7

BASE_STOP_WORDS ==
    {"a", "an", "the", "and", "or", "in", "on", "of", "for", "to", "with", "is", "was",
     "were", "it", "that", "as", "by", "from", "this", "at", "if", "but", "not", "be",
     "are", "has", "had", "have", "do", "does", "did", "its", "also", "just", "made",
     "new", "like", "use", "used", "using", "get", "set", "make", "all", "any", "most",
     "other", "some", "such", "only", "own", "same", "so", "than", "too", "very", "can",
     "will", "should", "could", "would", "must", "may", "might",
     "janus", "kairos", "codewright",
     "project", "task", "node", "file", "code", "script", "type", "name", "description",
     "items", "id", "uuid",
     "system", "data", "information", "process", "based", "via", "core", "value", "user",
     "agent", "self", "knowledge"}

RELATIONSHIP_VERBS ==
    <<"improves", "fixes", "causes", "relates", "depends on", "supports",
      "clarifies", "constrains", "expands", "addresses", "references",
      "reflects", "contains", "requires", "produces", "solves", "alleviates">>

INVERSE_RELATIONS ==
    [r \in {"has_child", "is_child_of", "is_descendant_of", "is_ancestor_of",
            "contains_task", "is_task_of", "addresses", "is_addressed_by",
            "expands", "is_expanded_by", "clarifies", "is_clarified_by",
            "constrains", "is_constrained_by", "reflects_on", "is_reflected_on_by",
            "derived_from", "is_source_of", "points_to", "is_pointed_to_by",
            "explicitly_references", "is_referenced_by", "improves"} |->
        CASE r = "has_child" -> "is_child_of"
          [] r = "is_child_of" -> "has_child"
          [] r = "is_descendant_of" -> "is_ancestor_of"
          [] r = "is_ancestor_of" -> "is_descendant_of"
          [] r = "contains_task" -> "is_task_of"
          [] r = "is_task_of" -> "contains_task"
          [] r = "addresses" -> "is_addressed_by"
          [] r = "is_addressed_by" -> "addresses"
          [] r = "expands" -> "is_expanded_by"
          [] r = "is_expanded_by" -> "expands"
          [] r = "clarifies" -> "is_clarified_by"
          [] r = "is_clarified_by" -> "clarifies"
          [] r = "constrains" -> "is_constrained_by"
          [] r = "is_constrained_by" -> "constrains"
          [] r = "reflects_on" -> "is_reflected_on_by"
          [] r = "is_reflected_on_by" -> "reflects_on"
          [] r = "derived_from" -> "is_source_of"
          [] r = "is_source_of" -> "derived_from"
          [] r = "points_to" -> "is_pointed_to_by"
          [] r = "is_pointed_to_by" -> "points_to"
          [] r = "explicitly_references" -> "is_referenced_by"
          [] r = "is_referenced_by" -> "explicitly_references"
          [] r = "improves" -> "is_improved_by"]

TYPE_RULES ==
    [k \in {"ReflectionEntry->SessionSummaryEntry", "LearningEntry->ReflectionEntry",
            "LearningEntry->SessionSummaryEntry", "LearningEntry->KnowledgeDomain",
            "Project->Goal", "Limitation->Ability", "Principle->GuidingPrinciples",
            "Tool->ToolRegistry"} |->
        CASE k = "ReflectionEntry->SessionSummaryEntry" -> "reflects_on"
          [] k = "LearningEntry->ReflectionEntry" -> "derived_from"
          [] k = "LearningEntry->SessionSummaryEntry" -> "derived_from"
          [] k = "LearningEntry->KnowledgeDomain" -> "expands"
          [] k = "Project->Goal" -> "addresses"
          [] k = "Limitation->Ability" -> "constrains"
          [] k = "Principle->GuidingPrinciples" -> "is_part_of"
          [] k = "Tool->ToolRegistry" -> "is_registered_in"]

\* INVERSE_RELATIONS[relation] || relation
InverseOf(relation) ==
    IF relation \in DOMAIN INVERSE_RELATIONS THEN INVERSE_RELATIONS[relation] ELSE relation

(***************************************************************************)
(* io.ts: helper functions                                                 *)
(***************************************************************************)
SelectLonger(words, i) == Len(words[i]) > 2

RECURSIVE FilterLongFrom(_, _)
FilterLongFrom(words, i) ==
    IF i > Len(words) THEN <<>>
    ELSE (IF SelectLonger(words, i) THEN <<words[i]>> ELSE <<>>) \o FilterLongFrom(words, i + 1)

\* _extractInitialKeywords: the Set of the words longer than 2, in insertion order
ExtractInitialKeywords(textContent) ==
    Dedup(FilterLongFrom(SplitSpaces(ReplacePunct(toLowerCase(textContent))), 1))

\* setIntersection: the elements of setB that setA has, in setB's order
RECURSIVE setIntersectionFrom(_, _, _)
setIntersectionFrom(setA, setB, i) ==
    IF i > Len(setB) THEN <<>>
    ELSE (IF Contains(setA, setB[i]) THEN <<setB[i]>> ELSE <<>>)
            \o setIntersectionFrom(setA, setB, i + 1)

setIntersection(setA, setB) == setIntersectionFrom(setA, setB, 1)

\* The parent-chain walk of isAncestor.  A walk that would never end (a cycle
\* of parentIds that does not hold the id looked for) is cut after more steps
\* than there are nodes and reported as "diverges".
RECURSIVE AncestorWalk(_, _, _, _)
AncestorWalk(currentId, potentialAncestorId, nodeMap, fuel) ==
    IF currentId = Null THEN "false"
    ELSE IF currentId = potentialAncestorId THEN "true"
    ELSE IF fuel = 0 THEN "diverges"
    ELSE AncestorWalk(IF currentId \in DOMAIN nodeMap THEN nodeMap[currentId].parentId
                                                        ELSE Null,
                      potentialAncestorId, nodeMap, fuel - 1)

isAncestor(childId, potentialAncestorId, nodeMap) ==
    AncestorWalk(childId, potentialAncestorId, nodeMap, Cardinality(DOMAIN nodeMap) + 1) = "true"

\* String.prototype.split(sep) for a non-empty separator
RECURSIVE SplitOnFrom(_, _, _, _, _)
SplitOnFrom(s, sep, i, cur, acc) ==
    IF i > Len(s) THEN Append(acc, cur)
    ELSE IF i + Len(sep) - 1 <= Len(s) /\ SubSeq(s, i, i + Len(sep) - 1) = sep
         THEN SplitOnFrom(s, sep, i + Len(sep), "", Append(acc, cur))
         ELSE SplitOnFrom(s, sep, i + 1, cur \o CharAt(s, i), acc)

SplitOn(s, sep) == SplitOnFrom(s, sep, 1, "", <<>>)

\* verb.replace(/ /g, '_')
RECURSIVE SpacesToUnderscores(_)
SpacesToUnderscores(s) ==
    IF Len(s) = 0 THEN ""
    ELSE (IF CharAt(s, 1) = " " THEN "_" ELSE CharAt(s, 1)) \o SpacesToUnderscores(Tail(s))

\* The innermost loop of rule 4: the first verb the sentence holds, "" when none
RECURSIVE FirstVerbIn(_, _)
FirstVerbIn(sentence, v) ==
    IF v > Len(RELATIONSHIP_VERBS) THEN ""
    ELSE IF Includes(sentence, RELATIONSHIP_VERBS[v])
         THEN SpacesToUnderscores(RELATIONSHIP_VERBS[v])
         ELSE FirstVerbIn(sentence, v + 1)

\* The loops over sharedKeywords and sentencesA, from keyword k and sentence j
RECURSIVE VerbSearch(_, _, _, _, _)
VerbSearch(sharedKeywords, sentencesA, verbOf, k, j) ==
    IF k > Len(sharedKeywords) THEN ""
    ELSE IF j > Len(sentencesA) THEN VerbSearch(sharedKeywords, sentencesA, verbOf, k + 1, 1)
    ELSE IF verbOf[j] # "" /\ Includes(sentencesA[j], sharedKeywords[k]) THEN verbOf[j]
    ELSE VerbSearch(sharedKeywords, sentencesA, verbOf, k, j + 1)

\* The first verb each sentence holds
VerbsOf(sentencesA) ==
    <<>> \o [j \in 1..Len(sentencesA) |-> FirstVerbIn(sentencesA[j], 1)]

VerbAmong(sharedKeywords, sentencesA) ==
    VerbSearch(sharedKeywords, sentencesA, VerbsOf(sentencesA), 1, 1)

\* Rule 4 of inferRelationship: the verb of the first (keyword, sentence), in
\* loop order, with the sentence holding the keyword and a verb; "" when none.
VerbRelation(nodeA, sharedKeywords) ==
    VerbAmong(sharedKeywords,
              SplitOn(toLowerCase(nodeA.name \o " " \o nodeA.description), ". "))

\* Rules 4 and 5 of inferRelationship
VerbOrFallback(verb) == IF verb # "" THEN verb ELSE "is_related_to"

\* Rule 3 of inferRelationship with the two keys built; "" when no rule applies
TypeRelation(typeRuleKey1, typeRuleKey2) ==
    IF typeRuleKey1 \in DOMAIN TYPE_RULES THEN TYPE_RULES[typeRuleKey1]
    ELSE IF /\ typeRuleKey2 \in DOMAIN TYPE_RULES
            /\ TYPE_RULES[typeRuleKey2] \in DOMAIN INVERSE_RELATIONS
         THEN INVERSE_RELATIONS[TYPE_RULES[typeRuleKey2]]
    ELSE ""

\* A rule chain that looks for explicit references before the structure
inferRelationshipReferenceFirst(nodeA, nodeB, sharedKeywords, nodeMap) ==
    IF Includes(nodeA.description, nodeB.id) THEN "explicitly_references"
    ELSE IF Includes(nodeB.description, nodeA.id) THEN "is_referenced_by"
    ELSE IF nodeA.parentId = nodeB.id THEN "is_child_of"
    ELSE IF nodeB.parentId = nodeA.id THEN "has_child"
    ELSE VerbOrFallback(VerbRelation(nodeA, sharedKeywords))

inferRelationship(nodeA, nodeB, sharedKeywords, nodeMap) ==
    \* 1. Structural Analysis
    IF nodeA.parentId = nodeB.id THEN "is_child_of"
    ELSE IF nodeB.parentId = nodeA.id THEN "has_child"
    ELSE IF nodeA.parentId # Null /\ nodeA.parentId = nodeB.parentId THEN "is_sibling_of"
    ELSE IF isAncestor(nodeA.id, nodeB.id, nodeMap) THEN "is_descendant_of"
    ELSE IF isAncestor(nodeB.id, nodeA.id, nodeMap) THEN "is_ancestor_of"
    \* 2. Explicit Reference Parsing
    ELSE IF Includes(nodeA.description, nodeB.id) THEN "explicitly_references"
    ELSE IF Includes(nodeB.description, nodeA.id) THEN "is_referenced_by"
    ELSE IF nodeA.type = "ReferenceValue" /\ Trim(nodeA.description) = nodeB.id
         THEN "points_to"
    ELSE IF nodeB.type = "ReferenceValue" /\ Trim(nodeB.description) = nodeA.id
         THEN "is_pointed_to_by"
    \* 3. Type-to-Type Logic
    ELSE IF TypeRelation(nodeA.type \o "->" \o nodeB.type,
                         nodeB.type \o "->" \o nodeA.type) # ""
         THEN TypeRelation(nodeA.type \o "->" \o nodeB.type,
                           nodeB.type \o "->" \o nodeA.type)
    \* 4. Keyword-Based Verb Extraction, 5. Default Fallback
    ELSE VerbOrFallback(VerbRelation(nodeA, sharedKeywords))

(***************************************************************************)
(* io.ts: generateCrossReferences                                          *)
(***************************************************************************)
\* Math.log1p(k) for k = 0..12, in units of 10^-5
Log1pE5 == [k \in 0..12 |->
    CASE k = 0 -> 0
      [] k = 1 -> 69315
      [] k = 2 -> 109861
      [] k = 3 -> 138629
      [] k = 4 -> 160944
      [] k = 5 -> 179176
      [] k = 6 -> 194591
      [] k = 7 -> 207944
      [] k = 8 -> 219722
      [] k = 9 -> 230259
      [] k = 10 -> 239790
      [] k = 11 -> 248491
      [] k = 12 -> 256495]

\* A confidence normalised by the threshold weight instead of maxWeight
ConfidenceOverThreshold(weight, maxWeight) ==
    (2000 * Log1pE5[weight] + Log1pE5[MIN_SHARED_KEYWORDS_THRESHOLD])
        \div (2 * Log1pE5[MIN_SHARED_KEYWORDS_THRESHOLD])

\* parseFloat(confidence.toFixed(3)), in thousandths
Confidence(weight, maxWeight) ==
    IF maxWeight > 0
    THEN IF maxWeight > 1
         THEN (2000 * Log1pE5[weight] + Log1pE5[maxWeight]) \div (2 * Log1pE5[maxWeight])
         ELSE 1000
    ELSE 0

\* The elements of a finite set of strings in code unit order
SortedIds(ids) ==
    <<>> \o [k \in 1..Cardinality(ids) |->
                CHOOSE u \in ids : Cardinality({v \in ids : StrLess(v, u)}) = k - 1]

RecordsAt(store, ids) == <<>> \o [k \in 1..Len(ids) |-> store[ids[k]]]

\* db.nodes.toArray(): the records in primary key (id) order
AllNodesOf(store) == RecordsAt(store, SortedIds(DOMAIN store))

NodeText(node) == node.name \o " " \o node.description

\* _extractInitialKeywords of every node of allNodes
InitialKeywords(allNodes) ==
    <<>> \o [i \in 1..Len(allNodes) |-> ExtractInitialKeywords(NodeText(allNodes[i]))]

\* globalKeywordCounts.set(keyword, (get(keyword) || 0) + 1); census.keys is
\* the Map's insertion order, census.count its values
CountKeyword(census, keyword) ==
    IF keyword \in DOMAIN census.count
    THEN [census EXCEPT !.count[keyword] = @ + 1]
    ELSE [keys |-> Append(census.keys, keyword),
          count |-> census.count @@ (keyword :> 1)]

\* 1. Global Keyword Census: one step per (node, keyword of the node's Set)
RECURSIVE CensusFrom(_, _, _)
CensusStep(occurrences, i, census) ==
    IF Len(census.keys) > 0 THEN CensusFrom(occurrences, i, census) ELSE census

CensusFrom(occurrences, i, census) ==
    IF i > Len(occurrences) THEN census
    ELSE CensusStep(occurrences, i + 1, CountKeyword(census, occurrences[i]))

GlobalKeywordCounts(initial) ==
    CensusFrom(Flatten(initial), 1, [keys |-> <<>>, count |-> <<>>])

\* sortedKeywords.slice(0, numDynamicStops)
MostCommon(sortedKeywords) ==
    Range(SubSeq(sortedKeywords, 1, Len(sortedKeywords) \div COMMON_WORD_PERCENTILE_DIVISOR))

\* The first keywords the census met, whatever their counts
DynamicStopWordsUnsorted(census) == MostCommon(census.keys)

\* 2. Dynamic Stop Word Generation
DynamicStopWords(census) ==
    LET MoreCommon(a, b) == census.count[a] > census.count[b]
    IN  MostCommon(StableSort(census.keys, MoreCommon))

FinalStopWords(census) == BASE_STOP_WORDS \cup DynamicStopWords(census)

\* A filter that lets every keyword through
RemoveStopWordsKeepAll(keywords, stopWords, i) == keywords

RECURSIVE RemoveStopWords(_, _, _)
RemoveStopWords(keywords, stopWords, i) ==
    IF i > Len(keywords) THEN <<>>
    ELSE (IF keywords[i] \in stopWords THEN <<>> ELSE <<keywords[i]>>)
            \o RemoveStopWords(keywords, stopWords, i + 1)

SignificantOf(initial, finalStopWords) ==
    <<>> \o [i \in 1..Len(initial) |-> RemoveStopWords(initial[i], finalStopWords, 1)]

SignificantAmong(initial) == SignificantOf(initial, FinalStopWords(GlobalKeywordCounts(initial)))

\* 3. Significant Keyword Extraction: per node of allNodes, its significant Set
SignificantKeywords(allNodes) == SignificantAmong(InitialKeywords(allNodes))

RECURSIVE KeepIndexed(_, _, _)
KeepIndexed(allNodes, significant, i) ==
    IF i > Len(allNodes) THEN <<>>
    ELSE (IF Len(significant[i]) > 0 THEN <<allNodes[i].id>> ELSE <<>>)
            \o KeepIndexed(allNodes, significant, i + 1)

IndexOfId(allNodes, u) == CHOOSE i \in 1..Len(allNodes) : allNodes[i].id = u

KeywordsById(allNodes, significant, order) ==
    [order |-> order,
     kw |-> [u \in Range(order) |-> significant[IndexOfId(allNodes, u)]] @@ <<>>]

KeywordsOf(allNodes, significant) ==
    KeywordsById(allNodes, significant, KeepIndexed(allNodes, significant, 1))

\* nodesKeywords: .order is the Map's key order, .kw its values
NodesKeywords(allNodes) == KeywordsOf(allNodes, SignificantKeywords(allNodes))

RECURSIVE DocsHolding(_, _, _)
DocsHolding(nk, keyword, i) ==
    IF i > Len(nk.order) THEN <<>>
    ELSE (IF Contains(nk.kw[nk.order[i]], keyword) THEN <<nk.order[i]>> ELSE <<>>)
            \o DocsHolding(nk, keyword, i + 1)

\* invertedIndex.get(kw): the ids holding kw, in nodesKeywords order
InvertedIndex(nk, keyword) == DocsHolding(nk, keyword, 1)

\* relatedDocs of one node: the Set filled keyword by keyword
RelatedDocs(nk, uuid) ==
    Dedup(Flatten(<<>> \o [k \in 1..Len(nk.kw[uuid]) |-> InvertedIndex(nk, nk.kw[uuid][k])]))

PairKey(uuid1, uuid2) == uuid1 \o "|" \o uuid2

\* tempCrossrefs.get(uuid).push(link), after the has/set of an empty list
PushLink(tempCrossrefs, uuid, link) ==
    IF uuid \in DOMAIN tempCrossrefs
    THEN [tempCrossrefs EXCEPT ![uuid] = Append(@, link)]
    ELSE tempCrossrefs @@ (uuid :> <<link>>)

\* The two pushes for a pair whose relation is inferred
PushBoth(uuid1, uuid2, weight, provenance, relation, acc) ==
    [acc EXCEPT !.tempCrossrefs =
        PushLink(PushLink(@, uuid1, [target_id |-> uuid2, weight |-> weight,
                                     relation |-> relation, provenance |-> provenance]),
                 uuid2, [target_id |-> uuid1, weight |-> weight,
                         relation |-> InverseOf(relation), provenance |-> provenance])]

AddLinks(uuid1, uuid2, weight, provenance, nodeMap, acc) ==
    PushBoth(uuid1, uuid2, weight, provenance,
             inferRelationship(nodeMap[uuid1], nodeMap[uuid2], provenance, nodeMap), acc)

\* The pair's weight is counted into maxWeight, and the links are made when
\* it reaches the threshold
ScoreShared(uuid1, uuid2, sharedKeywords, nodeMap, acc) ==
    IF Len(sharedKeywords) >= MIN_SHARED_KEYWORDS_THRESHOLD
    THEN AddLinks(uuid1, uuid2, Len(sharedKeywords), SortStrings(sharedKeywords), nodeMap,
                  [acc EXCEPT !.maxWeight = IF Len(sharedKeywords) > @
                                            THEN Len(sharedKeywords) ELSE @])
    ELSE [acc EXCEPT !.maxWeight = IF Len(sharedKeywords) > @
                                   THEN Len(sharedKeywords) ELSE @]

\* The loop body once [uuid, otherUuid].sort() gave uuid1 and uuid2
ScoreSorted(uuid1, uuid2, nk, nodeMap, acc) ==
    IF PairKey(uuid1, uuid2) \in acc.processedPairs THEN acc
    ELSE ScoreShared(uuid1, uuid2, setIntersection(nk.kw[uuid1], nk.kw[uuid2]), nodeMap,
                     [acc EXCEPT !.processedPairs = @ \cup {PairKey(uuid1, uuid2)}])

\* The body of the loop over relatedDocs for one (uuid, otherUuid); acc holds
\* processedPairs, maxWeight and tempCrossrefs (links per id, in push order).
ScorePair(uuid, otherUuid, nk, nodeMap, acc) ==
    IF uuid = otherUuid THEN acc
    ELSE IF StrLess(otherUuid, uuid) THEN ScoreSorted(otherUuid, uuid, nk, nodeMap, acc)
    ELSE ScoreSorted(uuid, otherUuid, nk, nodeMap, acc)

RECURSIVE ScoreRelated(_, _, _, _, _, _)
ScoreRelatedStep(uuid, relatedDocs, j, nk, nodeMap, acc) ==
    IF acc.maxWeight >= 0 THEN ScoreRelated(uuid, relatedDocs, j, nk, nodeMap, acc) ELSE acc

ScoreRelated(uuid, relatedDocs, j, nk, nodeMap, acc) ==
    IF j > Len(relatedDocs) THEN acc
    ELSE ScoreRelatedStep(uuid, relatedDocs, j + 1, nk, nodeMap,
                          ScorePair(uuid, relatedDocs[j], nk, nodeMap, acc))

RECURSIVE ScoreAll(_, _, _, _)
ScoreAllStep(i, nk, nodeMap, acc) ==
    IF acc.maxWeight >= 0 THEN ScoreAll(i, nk, nodeMap, acc) ELSE acc

ScoreAll(i, nk, nodeMap, acc) ==
    IF i > Len(nk.order) THEN acc
    ELSE ScoreAllStep(i + 1, nk, nodeMap,
                      ScoreRelated(nk.order[i], RelatedDocs(nk, nk.order[i]), 1, nk,
                                   nodeMap, acc))

\* uuidToNodeMap
NodeMapOf(allNodes) ==
    [u \in {allNodes[i].id : i \in 1..Len(allNodes)} |-> allNodes[IndexOfId(allNodes, u)]]
        @@ <<>>

ScoreFrom(nk, nodeMap) ==
    IF Len(nk.order) >= 0
    THEN ScoreAll(1, nk, nodeMap,
                  [processedPairs |-> {}, maxWeight |-> 0, tempCrossrefs |-> <<>>])
    ELSE <<>>

\* 4. Inverted Indexing & Link Generation
TempCrossrefs(allNodes) == ScoreFrom(NodesKeywords(allNodes), NodeMapOf(allNodes))

HigherConfidence(a, b) == a.confidence > b.confidence

\* A confidence that falls as the weight grows
ProcessedLinksInverted(links, maxWeight) ==
    <<>> \o [k \in 1..Len(links) |->
                [target_id |-> links[k].target_id,
                 relation |-> links[k].relation,
                 provenance |-> links[k].provenance,
                 confidence |-> Confidence(maxWeight + MIN_SHARED_KEYWORDS_THRESHOLD
                                              - links[k].weight, maxWeight)]]

\* links.map(link => ...): the confidence of each link
ProcessedLinks(links, maxWeight) ==
    <<>> \o [k \in 1..Len(links) |->
                [target_id |-> links[k].target_id,
                 relation |-> links[k].relation,
                 provenance |-> links[k].provenance,
                 confidence |-> Confidence(links[k].weight, maxWeight)]]

\* A slice that keeps everything
SliceKeepAll(s, n) == s

\* Array.prototype.slice(0, n)
SliceTo(s, n) == SubSeq(s, 1, IF Len(s) < n THEN Len(s) ELSE n)

\* 5. Normalization & Pruning of one node's links
PruneLinks(links, maxWeight) ==
    SliceTo(StableSort(ProcessedLinks(links, maxWeight), HigherConfidence),
            MAX_LINKS_PER_NODE)

FinalCrossrefIndex(scored) ==
    [u \in DOMAIN scored.tempCrossrefs |->
        PruneLinks(scored.tempCrossrefs[u], scored.maxWeight)] @@ <<>>

CrossrefsOf(allNodes) ==
    IF Len(allNodes) < 2 THEN <<>> ELSE FinalCrossrefIndex(TempCrossrefs(allNodes))

\* generateCrossReferences over the store's contents: the index as a
\* function from the ids that have links to their link lists ({} is <<>>).
generateCrossReferences(store) == CrossrefsOf(AllNodesOf(store))

(***************************************************************************)
(* db.ts: the node store.  A store is a function from the ids of the       *)
(* stored records to the records.                                          *)
(***************************************************************************)
\* The ids crypto.randomUUID can return, and the most records a store holds.
MaxNodes == 2

IdPool == <<"u1", "u2", "u3", "u4", "u5", "u6", "u7", "u8", "u9", "u10", "u11">>

\* The largest sortOrder a drop of the editor session may assign
MaxSort == MaxNodes - 1

\* An id that names no record and is never generated
Ghost == "ghost"

EmptyStore == <<>>

NodeRecord(id, parentId, name, type, description, sortOrder) ==
    [id |-> id, parentId |-> parentId, name |-> name, type |-> type,
     description |-> description, sortOrder |-> sortOrder]

\* crypto.randomUUID(): an id that no record of the store uses as id or
\* parentId, and that is not among the ids in `taken` (ids that were handed
\* out or named earlier: a random UUID repeats none of them)
FreshIdAvoiding(store, taken) ==
    LET Used(x) == \/ x \in DOMAIN store
                   \/ x \in taken
                   \/ \E u \in DOMAIN store : store[u].parentId = x
    IN  IdPool[CHOOSE i \in 1..Len(IdPool) :
                  /\ ~Used(IdPool[i])
                  /\ \A j \in 1..(i - 1) : Used(IdPool[j])]

FreshId(store) == FreshIdAvoiding(store, {})

\* db.nodes.where({ parentId }).count()
SiblingCount(store, parentId) ==
    Cardinality({u \in DOMAIN store : store[u].parentId = parentId})

\* db.nodes.add(record)
AddRecord(store, record) == store @@ (record.id :> record)

createNode(store, parentId) ==
    LET siblingCount == SiblingCount(store, parentId)
        newId == FreshId(store)
    IN  AddRecord(store, NodeRecord(newId, parentId, "New Node", "Node", "", siblingCount))

\* db.nodes.update(nodeId, changes): changes is a record of the fields to replace
updateNode(store, nodeId, changes) ==
    IF nodeId \in DOMAIN store
    THEN [store EXCEPT ![nodeId] =
            [f \in DOMAIN @ |-> IF f \in DOMAIN changes THEN changes[f] ELSE @[f]]]
    ELSE store

\* db.nodes.where('parentId').equals(currentId).toArray(), as ids in key order
ChildrenOf(store, currentId) ==
    LET kids == {u \in DOMAIN store : store[u].parentId = currentId}
        nth(k) == CHOOSE u \in kids : Cardinality({v \in kids : StrLess(v, u)}) = k - 1
    IN  <<>> \o [k \in 1..Cardinality(kids) |-> nth(k)]

\* The while loop of deleteNodeAndChildren: the Set nodesToDelete
RECURSIVE CollectSubtree(_, _, _, _)
CollectSubtree(store, queue, head, nodesToDelete) ==
    IF head > Len(queue) THEN nodesToDelete
    ELSE LET currentId == queue[head]
         IN  IF currentId \in nodesToDelete
             THEN CollectSubtree(store, queue, head + 1, nodesToDelete)
             ELSE CollectSubtree(store, queue \o ChildrenOf(store, currentId), head + 1,
                                 nodesToDelete \cup {currentId})

\* A delete set of the node and its direct children only
NodesToDeleteShallow(store, nodeId) == {nodeId} \cup Range(ChildrenOf(store, nodeId))

NodesToDelete(store, nodeId) == CollectSubtree(store, <<nodeId>>, 1, {})

\* db.nodes.bulkDelete(ids): absent ids are ignored
BulkDelete(store, ids) == [u \in DOMAIN store \ ids |-> store[u]] @@ <<>>

deleteNodeAndChildren(store, nodeId) == BulkDelete(store, NodesToDelete(store, nodeId))

\* reorderNode(sourceId, newParentId, newSortOrder): sets the parent and the
\* sort order of the record; the siblings at the destination are not renumbered.
reorderNode(store, sourceId, newParentId, newSortOrder) ==
    updateNode(store, sourceId, [parentId |-> newParentId, sortOrder |-> newSortOrder])

(***************************************************************************)
(* store.ts: the in-memory tree.  A tree is the list of root ids and, per  *)
(* node object, its record and its children list (object references are   *)
(* ids).                                                                   *)
(***************************************************************************)
EmptyTree == [roots |-> <<>>, rec |-> <<>>, children |-> <<>>]

\* db.nodes.orderBy('sortOrder').toArray(): by sortOrder, then by primary key
FlatNodesOf(store) ==
    LET ids == DOMAIN store
        Precedes(v, u) == \/ store[v].sortOrder < store[u].sortOrder
                          \/ store[v].sortOrder = store[u].sortOrder /\ StrLess(v, u)
        nth(k) == CHOOSE u \in ids : Cardinality({v \in ids : Precedes(v, u)}) = k - 1
    IN  [k \in 1..Cardinality(ids) |-> store[nth(k)]]

\* A tree builder that leaves out the nodes whose parent is not in the input
RECURSIVE AttachDropOrphans(_, _, _)
AttachDropOrphans(flatNodes, i, t) ==
    IF i > Len(flatNodes) THEN t
    ELSE LET node == flatNodes[i]
         IN  AttachDropOrphans(flatNodes, i + 1,
                IF node.parentId = Null
                THEN [t EXCEPT !.roots = Append(@, node.id)]
                ELSE IF node.parentId \in DOMAIN t.rec
                THEN [t EXCEPT !.children[node.parentId] = Append(@, node.id)]
                ELSE t)

\* The second forEach of loadTree
RECURSIVE AttachFrom(_, _, _)
AttachFrom(flatNodes, i, t) ==
    IF i > Len(flatNodes) THEN t
    ELSE LET node == flatNodes[i]
         IN  AttachFrom(flatNodes, i + 1,
                IF node.parentId # Null /\ node.parentId \in DOMAIN t.rec
                THEN [t EXCEPT !.children[node.parentId] = Append(@, node.id)]
                ELSE [t EXCEPT !.roots = Append(@, node.id)])

loadTree(store) ==
    LET flatNodes == FlatNodesOf(store)
        ids == DOMAIN store
    IN  IF Len(flatNodes) = 0 THEN EmptyTree
        ELSE AttachFrom(flatNodes, 1,
                [roots |-> <<>>, rec |-> [u \in ids |-> store[u]],
                 children |-> [u \in ids |-> <<>>]])

\* flatNodeMap: the ids recurse() reaches from the roots.  The objects form
\* no cycle below a root, so the recursion ends; it is cut after more levels
\* than there are objects all the same.
RECURSIVE Recurse(_, _, _)
Recurse(t, ids, fuel) ==
    IF Len(ids) = 0 \/ fuel = 0 THEN {}
    ELSE Range(ids) \cup UNION {Recurse(t, t.children[ids[k]], fuel - 1) : k \in 1..Len(ids)}

FlatNodeIds(t) == Recurse(t, t.roots, Cardinality(DOMAIN t.rec) + 1)

flatNodeMap(t) == [u \in FlatNodeIds(t) |-> t.rec[u]]

loadCrossref(store) == generateCrossReferences(store)

\* The while loop of ancestorIds: the ids collected, and whether the loop
\* ended (it has no guard against a chain that comes back to an id)
RECURSIVE AncestorIdsFrom(_, _, _, _)
AncestorIdsFrom(currentId, nodeMap, ids, fuel) ==
    IF currentId = Null THEN [ends |-> TRUE, ids |-> ids]
    ELSE IF fuel = 0 THEN [ends |-> FALSE, ids |-> ids]
    ELSE AncestorIdsFrom(IF currentId \in DOMAIN nodeMap THEN nodeMap[currentId].parentId
                                                            ELSE Null,
                         nodeMap, ids \cup {currentId}, fuel - 1)

\* A walk that stays on the node it has looked up
RECURSIVE AncestorIdsStay(_, _, _, _)
AncestorIdsStay(currentId, nodeMap, ids, fuel) ==
    IF currentId = Null THEN [ends |-> TRUE, ids |-> ids]
    ELSE IF fuel = 0 THEN [ends |-> FALSE, ids |-> ids]
    ELSE AncestorIdsStay(IF currentId \in DOMAIN nodeMap THEN nodeMap[currentId].id
                                                            ELSE Null,
                         nodeMap, ids \cup {currentId}, fuel - 1)

ancestorIdsStay(selected, nodeMap) ==
    IF selected.id = Null \/ DOMAIN nodeMap = {}
    THEN [ends |-> TRUE, ids |-> {}]
    ELSE AncestorIdsStay(selected.parentId, nodeMap, {}, Cardinality(DOMAIN nodeMap) + 1)

ancestorIds(selected, nodeMap) ==
    IF selected.id = Null \/ DOMAIN nodeMap = {}
    THEN [ends |-> TRUE, ids |-> {}]
    ELSE AncestorIdsFrom(selected.parentId, nodeMap, {}, Cardinality(DOMAIN nodeMap) + 1)

(***************************************************************************)
(* io.ts: import.  A SourceJsonNode is a record [ID, Name, Type,           *)
(* Description, Items] with Items a sequence of SourceJsonNodes.           *)
(***************************************************************************)
SourceNode(ID, Name, Type, Description, Items) ==
    [ID |-> ID, Name |-> Name, Type |-> Type, Description |-> Description, Items |-> Items]

\* processImportedNode: the records pushed to flatNodes, in push order
RECURSIVE processImportedNode(_, _, _)
processImportedNode(sourceNode, newParentId, sortOrder) ==
    LET newId == sourceNode.ID
        self == NodeRecord(newId, newParentId, sourceNode.Name, sourceNode.Type,
                           sourceNode.Description, sortOrder)
    IN  <<self>> \o Flatten([index \in 1..Len(sourceNode.Items) |->
                                processImportedNode(sourceNode.Items[index], newId, index - 1)])

\* db.nodes.bulkAdd(records) into a store: adding a key twice is a
\* ConstraintError, which fails the call.
BulkAddFails(store, records) ==
    \/ \E i \in 1..Len(records) : records[i].id \in DOMAIN store
    \/ \E i, j \in 1..Len(records) : i # j /\ records[i].id = records[j].id

BulkAdd(store, records) ==
    store @@ [u \in {records[i].id : i \in 1..Len(records)} |->
                 records[CHOOSE i \in 1..Len(records) : records[i].id = u]]

\* clear, then bulkAdd, outside any transaction: the clear stays when the
\* bulkAdd fails
ReplaceAllUnguarded(store, rootSourceNode) ==
    LET flatNodes == processImportedNode(rootSourceNode, Null, 0)
    IN  IF BulkAddFails(EmptyStore, flatNodes)
        THEN [ok |-> FALSE, store |-> EmptyStore]
        ELSE [ok |-> TRUE, store |-> BulkAdd(EmptyStore, flatNodes)]

\* The transaction of importSourceJson and seedDatabaseWithAgora: clear, then
\* bulkAdd; a failed bulkAdd aborts the transaction, which undoes the clear.
ReplaceAll(store, rootSourceNode) ==
    LET flatNodes == processImportedNode(rootSourceNode, Null, 0)
    IN  IF BulkAddFails(EmptyStore, flatNodes)
        THEN [ok |-> FALSE, store |-> store]
        ELSE [ok |-> TRUE, store |-> BulkAdd(EmptyStore, flatNodes)]

importSourceJson(store, rootSourceNode) == ReplaceAll(store, rootSourceNode)

seedDatabaseWithAgora(store, rootSourceNode) == ReplaceAll(store, rootSourceNode)

(***************************************************************************)
(* io.ts: patches.  An operation is a record; a field the JSON leaves out  *)
(* is a field the record does not have.  storeError marks an operation     *)
(* during which the store fails.                                           *)
(***************************************************************************)
\* !op.f for a string field: missing, or the empty string
Falsy(op, f) == f \notin DOMAIN op \/ op[f] = ""

\* The checks of validatePatch on one operation: TRUE when it throws
OpInvalid(op) ==
    \/ op.op \notin {"add", "remove", "replace"}
    \/ op.op = "add" /\ (Falsy(op, "parent_uuid") \/ "node" \notin DOMAIN op)
    \/ op.op = "remove" /\ Falsy(op, "uuid")
    \/ op.op = "replace" /\ (Falsy(op, "uuid") \/ Falsy(op, "field") \/ "value" \notin DOMAIN op)

\* validatePatch: TRUE when it returns true, FALSE when it throws
validatePatch(data) == \A i \in 1..Len(data) : ~OpInvalid(data[i])

\* The number of nodes of an add payload
RECURSIVE PayloadSize(_)
PayloadSize(nodeData) ==
    IF "Items" \in DOMAIN nodeData
    THEN 1 + Len(Flatten([i \in 1..Len(nodeData.Items) |->
                            [k \in 1..PayloadSize(nodeData.Items[i]) |-> 0]]))
    ELSE 1

\* recursiveAddNode inside the transaction.  The state st is the store as
\* the transaction sees it, the number of write calls issued, and whether
\* a call has thrown.  failAt is the number of the add call of this
\* operation that the store fails (0: none); a store failure during an add
\* operation hits the add of the payload's last node.
RECURSIVE recursiveAddNode(_, _, _, _, _)
RECURSIVE AddItems(_, _, _, _, _)
recursiveAddNode(st, nodeData, parentId, sortOrder, failAt) ==
    IF st.thrown THEN st
    ELSE IF failAt = st.adds + 1
    THEN [st EXCEPT !.thrown = TRUE]
    ELSE LET newId == FreshIdAvoiding(st.store, st.taken)
             added == [st EXCEPT !.store = AddRecord(@, NodeRecord(newId, parentId,
                                                nodeData.Name, nodeData.Type,
                                                nodeData.Description, sortOrder)),
                                 !.writes = @ + 1,
                                 !.adds = @ + 1]
         IN  IF "Items" \in DOMAIN nodeData /\ Len(nodeData.Items) > 0
             THEN AddItems(added, nodeData.Items, 1, newId, failAt)
             ELSE added

AddItems(st, items, i, newId, failAt) ==
    IF i > Len(items) \/ st.thrown THEN st
    ELSE AddItems(recursiveAddNode(st, items[i], newId, i - 1, failAt), items, i + 1,
                  newId, failAt)

FieldMapping(field) ==
    CASE field = "Name" -> "name"
      [] field = "Type" -> "type"
      [] field = "Description" -> "description"
      [] OTHER -> ""

StoreFails(op) == "storeError" \in DOMAIN op /\ op.storeError

\* One iteration of the for loop of applyPatchFromClipboard
ApplyOp(st, op) ==
    CASE op.op = "add" ->
            LET siblingCount == SiblingCount(st.store, op.parent_uuid)
            IN  recursiveAddNode([st EXCEPT !.adds = 0], op.node, op.parent_uuid, siblingCount,
                                 IF StoreFails(op) THEN PayloadSize(op.node) ELSE 0)
      [] op.op = "remove" ->
            IF StoreFails(op) THEN [st EXCEPT !.thrown = TRUE]
            ELSE [st EXCEPT !.store = deleteNodeAndChildren(@, op.uuid), !.writes = @ + 1]
      [] op.op = "replace" ->
            LET dbField == FieldMapping(op.field)
            IN  IF dbField = "" THEN [st EXCEPT !.thrown = TRUE]
                ELSE IF StoreFails(op) THEN [st EXCEPT !.thrown = TRUE]
                ELSE [st EXCEPT !.store = updateNode(@, op.uuid,
                                               (dbField :> op.value)),
                                !.writes = @ + 1]

RECURSIVE ApplyOpsFrom(_, _, _)
ApplyOpsFrom(st, patchData, i) ==
    IF i > Len(patchData) \/ st.thrown THEN st
    ELSE ApplyOpsFrom(ApplyOp(st, patchData[i]), patchData, i + 1)

\* The ids a patch names and the ids stored when it is applied
NamedIn(store, patchData) ==
    DOMAIN store
    \cup {patchData[i].uuid : i \in {k \in 1..Len(patchData) : "uuid" \in DOMAIN patchData[k]}}
    \cup {patchData[i].parent_uuid :
             i \in {k \in 1..Len(patchData) : "parent_uuid" \in DOMAIN patchData[k]}}

\* The state in which the loop over the operations starts
LoopStart(store, patchData) ==
    [store |-> store, writes |-> 0, adds |-> 0, thrown |-> FALSE,
     taken |-> NamedIn(store, patchData)]

\* A loop outside any transaction: what it wrote before it threw stays
PatchWithoutRollback(store, patchData) ==
    LET st == ApplyOpsFrom(LoopStart(store, patchData), patchData, 1)
    IN  [outcome |-> IF st.thrown THEN "failed" ELSE "applied",
         store |-> st.store, writes |-> st.writes]

\* The Dexie transaction around the loop: it commits what the loop wrote
\* when the loop ends, and undoes it when the loop throws.
PatchTransaction(store, patchData) ==
    LET st == ApplyOpsFrom(LoopStart(store, patchData), patchData, 1)
    IN  IF st.thrown
        THEN [outcome |-> "failed", store |-> store, writes |-> st.writes]
        ELSE [outcome |-> "applied", store |-> st.store, writes |-> st.writes]

\* applyPatchFromClipboard: outcome "rejected" (validatePatch threw),
\* "failed" (the transaction threw) or "applied"; writes counts the write
\* calls issued to the store before the function returned or threw.
applyPatchFromClipboard(store, patchData) ==
    IF validatePatch(patchData)
    THEN PatchTransaction(store, patchData)
    ELSE [outcome |-> "rejected", store |-> store, writes |-> 0]

(***************************************************************************)
(* The handlers of +page.svelte and TreeNode.svelte.  Each action is one   *)
(* handler run from its event to its return, with no other handler in      *)
(* between.                                                                *)
(***************************************************************************)
NoSelection == [id |-> Null, parentId |-> Null]

\* No createNode call is in flight
NoCalls == <<>>

\* No graph drawn, no handler in flight, no notification, clock at 0
NoGraph == [neighborhoodDistance |-> 1, nodes |-> {}, links |-> {}, queue |-> <<>>]

SideInit ==
    /\ orrery = NoGraph
    /\ running = <<>>
    /\ notifications = <<>>
    /\ timers = {}
    /\ clock = 0

Selection(t, u) == [id |-> u, parentId |-> t.rec[u].parentId]

\* get(tree)[0], or null
FirstRoot(t) == IF Len(t.roots) > 0 THEN Selection(t, t.roots[1]) ELSE NoSelection

\* findNode($tree, id) of handleSave
FindNode(t, id) == IF id \in FlatNodeIds(t) THEN Selection(t, id) ELSE NoSelection

\* The nodes a TreeNode component exists for
Rendered == FlatNodeIds(tree)

Reload(store) ==
    /\ tree' = loadTree(store)
    /\ crossref' = loadCrossref(store)

\* What the user types into the editor before saving
EditChoices == {[name |-> "New Node", type |-> "Node", description |-> "alpha beta"]}

Leaf(ID) == SourceNode(ID, "New Node", "Node", "", <<>>)

\* The files the user imports and the Agora template: a single node, a node
\* with a child, and a file in which two nodes have the same ID
ImportTrees ==
    { Leaf("u1"),
      SourceNode("u1", "New Node", "Node", "alpha beta", <<Leaf("u2")>>),
      SourceNode("u1", "New Node", "Node", "", <<Leaf("u2"), Leaf("u2")>>) }

\* onMount: seeds an empty database with the Agora template (agora is the
\* content of Agora.json), then loads the stores and selects the first root.
Launch(agora) ==
    /\ last.op = "none"
    /\ LET seeded == IF Cardinality(DOMAIN nodes) = 0
                     THEN seedDatabaseWithAgora(nodes, agora)
                     ELSE [ok |-> TRUE, store |-> nodes]
       IN  /\ nodes' = seeded.store
           /\ IF seeded.ok
              THEN /\ Reload(seeded.store)
                   /\ selectedNode' = FirstRoot(loadTree(seeded.store))
              ELSE UNCHANGED <<tree, crossref, selectedNode>>
           /\ last' = [op |-> "mount", ok |-> seeded.ok]

OnMount(agora) == Launch(agora) /\ UNCHANGED <<creating, side>>

Mounted == last.op # "none"

\* handleSelect, handleToggle
Select(u) ==
    /\ Mounted
    /\ u \in Rendered
    /\ selectedNode' = Selection(tree, u)
    /\ last' = [op |-> "select"]
    /\ UNCHANGED <<nodes, tree, crossref>>

HandleSelect(u) == Select(u) /\ UNCHANGED <<creating, side>>

HandleAddRootNode ==
    /\ Mounted
    /\ Cardinality(DOMAIN nodes) < MaxNodes
    /\ nodes' = createNode(nodes, Null)
    /\ Reload(nodes')
    /\ last' = [op |-> "addRoot"]
    /\ UNCHANGED selectedNode
    /\ UNCHANGED <<creating, side>>

HandleAddChild(u) ==
    /\ Mounted
    /\ u \in Rendered
    /\ Cardinality(DOMAIN nodes) < MaxNodes
    /\ nodes' = createNode(nodes, u)
    /\ Reload(nodes')
    /\ last' = [op |-> "addChild"]
    /\ UNCHANGED selectedNode
    /\ UNCHANGED <<creating, side>>

\* A delete handler that reloads the tree and leaves the index as it was
HandleDeleteIndexKept(u, confirmed) ==
    /\ Mounted
    /\ u \in Rendered
    /\ IF confirmed
       THEN /\ nodes' = deleteNodeAndChildren(nodes, u)
            /\ selectedNode' = IF selectedNode.id = u THEN NoSelection ELSE selectedNode
            /\ tree' = loadTree(nodes')
            /\ UNCHANGED crossref
       ELSE UNCHANGED <<nodes, tree, crossref, selectedNode>>
    /\ last' = [op |-> "delete", confirmed |-> confirmed,
                 removed |-> Cardinality(DOMAIN nodes) - Cardinality(DOMAIN nodes'),
                 indirect |-> FALSE]
    /\ UNCHANGED <<creating, side>>

HandleDelete(u, confirmed) ==
    /\ Mounted
    /\ u \in Rendered
    /\ IF confirmed
       THEN /\ nodes' = deleteNodeAndChildren(nodes, u)
            /\ selectedNode' = IF selectedNode.id = u THEN NoSelection ELSE selectedNode
            /\ Reload(nodes')
       ELSE UNCHANGED <<nodes, tree, crossref, selectedNode>>
    /\ last' = [op |-> "delete", confirmed |-> confirmed,
                 removed |-> Cardinality(DOMAIN nodes) - Cardinality(DOMAIN nodes'),
                 indirect |-> \E v \in DOMAIN nodes \ (DOMAIN nodes' \cup {u}) :
                                 nodes[v].parentId # u]
    /\ UNCHANGED <<creating, side>>

HandleSave(changes) ==
    /\ Mounted
    /\ selectedNode.id # Null
    /\ nodes' = updateNode(nodes, selectedNode.id, changes)
    /\ Reload(nodes')
    /\ selectedNode' = FindNode(loadTree(nodes'), selectedNode.id)
    /\ last' = [op |-> "save"]
    /\ UNCHANGED <<creating, side>>

\* A walk that never finds sourceId
DropWalkNever(currentId, sourceId, nodeMap, fuel) == FALSE

\* The while loop of handleDrop over flatNodeMap: TRUE when it finds sourceId
\* on the way from targetId to a root
RECURSIVE DropWalk(_, _, _, _)
DropWalk(currentId, sourceId, nodeMap, fuel) ==
    IF currentId = Null \/ fuel = 0 THEN FALSE
    ELSE IF currentId = sourceId THEN TRUE
    ELSE DropWalk(IF currentId \in DOMAIN nodeMap THEN nodeMap[currentId].parentId ELSE Null,
                  sourceId, nodeMap, fuel - 1)

\* A check of the target alone, without the walk up
DropRejectedSelfOnly(t, sourceId, targetId) == sourceId = targetId

DropRejected(t, sourceId, targetId) ==
    DropWalk(targetId, sourceId, flatNodeMap(t), Cardinality(DOMAIN t.rec) + 1)

\* The parent and sort order handleDrop resolves a drop to
DropParent(t, targetId, dropIndicator) ==
    IF dropIndicator = "on" THEN targetId ELSE t.rec[targetId].parentId

DropSortOrder(t, targetId, dropIndicator) ==
    IF dropIndicator = "on" THEN Len(t.children[targetId])
    ELSE IF dropIndicator = "before" THEN t.rec[targetId].sortOrder
    ELSE t.rec[targetId].sortOrder + 1

DropIndicators == {"before", "after", "on"}

HandleDrop(sourceId, targetId, dropIndicator) ==
    /\ Mounted
    /\ sourceId \in Rendered
    /\ targetId \in Rendered
    /\ dropIndicator \in DropIndicators
    /\ LET attempt == [op |-> "drop", self |-> sourceId = targetId]
       IN  IF DropRejected(tree, sourceId, targetId)
           THEN /\ last' = attempt @@ [outcome |-> "rejected"]
                /\ UNCHANGED <<nodes, tree, crossref, selectedNode>>
           ELSE IF sourceId = targetId /\ dropIndicator # "on"
           THEN /\ last' = attempt @@ [outcome |-> "skipped"]
                /\ UNCHANGED <<nodes, tree, crossref, selectedNode>>
           ELSE /\ nodes' = reorderNode(nodes, sourceId,
                                        DropParent(tree, targetId, dropIndicator),
                                        DropSortOrder(tree, targetId, dropIndicator))
                /\ Reload(nodes')
                /\ last' = attempt @@ [outcome |-> "moved"]
                /\ UNCHANGED selectedNode
    /\ UNCHANGED <<creating, side>>

HandleImport(kind, rootSourceNode) ==
    /\ Mounted
    /\ LET done == IF kind = "import" THEN importSourceJson(nodes, rootSourceNode)
                                      ELSE seedDatabaseWithAgora(nodes, rootSourceNode)
       IN  /\ nodes' = done.store
           /\ IF done.ok
              THEN /\ Reload(done.store)
                   /\ selectedNode' = FirstRoot(loadTree(done.store))
              ELSE UNCHANGED <<tree, crossref, selectedNode>>
           /\ last' = [op |-> kind, ok |-> done.ok]
    /\ UNCHANGED <<creating, side>>

HandleImportCore(rootSourceNode) == HandleImport("import", rootSourceNode)

HandleResetToAgora(agora) == HandleImport("reset", agora)

HandleApplyPatch(patchData) ==
    /\ Mounted
    /\ LET done == applyPatchFromClipboard(nodes, patchData)
       IN  /\ nodes' = done.store
           /\ IF done.outcome = "applied"
              THEN /\ Reload(done.store)
                   /\ selectedNode' = NoSelection
              ELSE UNCHANGED <<tree, crossref, selectedNode>>
           /\ last' = [op |-> "patch", patch |-> patchData, outcome |-> done.outcome,
                       writes |-> done.writes]
    /\ UNCHANGED <<creating, side>>

(***************************************************************************)
(* Inputs and specifications                                               *)
(***************************************************************************)
PLeaf == [Name |-> "New Node", Type |-> "Node", Description |-> ""]

PPair == [Name |-> "New Node", Type |-> "Node", Description |-> "alpha beta",
          Items |-> <<Leaf("x")>>]

Targets(store) == DOMAIN store \cup {Ghost}

\* The operations a patch is made of: well-formed ones on the stored ids and
\* on an id that names nothing, a replace of a field that does not exist,
\* operations during which the store fails, and malformed ones.
PatchOps(store) ==
    {[op |-> "add", parent_uuid |-> u, node |-> n] : u \in Targets(store), n \in {PLeaf, PPair}}
    \cup {[op |-> "remove", uuid |-> u] : u \in Targets(store)}
    \cup {[op |-> "replace", uuid |-> u, field |-> "Description", value |-> "alpha beta"] :
            u \in Targets(store)}
    \cup {[op |-> "replace", uuid |-> Ghost, field |-> "Colour", value |-> "alpha beta"],
          [op |-> "add", parent_uuid |-> Ghost, node |-> PPair, storeError |-> TRUE],
          [op |-> "remove", uuid |-> Ghost, storeError |-> TRUE],
          [op |-> "rename", uuid |-> Ghost],
          [op |-> "remove"],
          [op |-> "add", parent_uuid |-> Ghost]}

\* The patches of one operation the editor session applies: on the stored
\* ids, growing the store to no more than MaxNodes records, and a malformed one
EditorPatches(store) ==
    {<<[op |-> "add", parent_uuid |-> u, node |-> PLeaf]>> :
        u \in {v \in DOMAIN store : Cardinality(DOMAIN store) < MaxNodes}}
    \cup {<<[op |-> "remove", uuid |-> u]>> : u \in DOMAIN store}
    \cup {<<[op |-> "replace", uuid |-> u, field |-> "Description", value |-> "alpha beta"]>> :
            u \in DOMAIN store}
    \cup {<<[op |-> "remove"]>>}

\* The longest patch of SpecPatch
PatchMaxLen == 2

Patches(store, maxLen) == UNION {[1..n -> PatchOps(store)] : n \in 0..maxLen}

\* First launch: an empty database and the stores' initial values
Init ==
    /\ nodes = EmptyStore
    /\ tree = EmptyTree
    /\ crossref = <<>>
    /\ selectedNode = NoSelection
    /\ last = [op |-> "none"]
    /\ creating = NoCalls
    /\ SideInit

Next ==
    \/ \E agora \in ImportTrees : OnMount(agora)
    \/ \E u \in Rendered : HandleSelect(u)
    \/ HandleAddRootNode
    \/ \E u \in Rendered : HandleAddChild(u)
    \/ \E u \in Rendered, confirmed \in BOOLEAN : HandleDelete(u, confirmed)
    \/ \E changes \in EditChoices : HandleSave(changes)
    \/ \E sourceId \in Rendered, targetId \in Rendered, dropIndicator \in DropIndicators :
            /\ DropSortOrder(tree, targetId, dropIndicator) <= MaxSort
            /\ HandleDrop(sourceId, targetId, dropIndicator)
    \/ \E rootSourceNode \in ImportTrees : HandleImportCore(rootSourceNode)
    \/ \E agora \in ImportTrees : HandleResetToAgora(agora)
    \/ \E patchData \in EditorPatches(nodes) : HandleApplyPatch(patchData)

Spec == Init /\ [][Next]_vars

\* One patch, of up to PatchMaxLen operations, applied to a seeded database
ApplyOnePatch ==
    /\ last.op = "mount"
    /\ \E patchData \in Patches(nodes, PatchMaxLen) : HandleApplyPatch(patchData)

NextPatch ==
    \/ \E agora \in ImportTrees : OnMount(agora)
    \/ ApplyOnePatch

SpecPatch == Init /\ [][NextPatch]_vars

\* The forests of SpecForest have up to FMaxNodes nodes
FMaxNodes == 3

ForestIds(n) == {IdPool[i] : i \in 1..n}

\* parentOf has no cycle: from every id the parent chain reaches Null
RECURSIVE ReachesRoot(_, _, _)
ReachesRoot(parentOf, u, fuel) ==
    IF u = Null THEN TRUE
    ELSE IF fuel = 0 THEN FALSE
    ELSE ReachesRoot(parentOf, parentOf[u], fuel - 1)

\* The database that createNode builds when the nodes are created in id
\* order under the parents parentOf names, each then given the description
\* of EditChoices by handleSave
ForestStore(parentOf) ==
    [u \in DOMAIN parentOf |->
        NodeRecord(u, parentOf[u], "New Node", "Node", "alpha beta",
                   Cardinality({v \in DOMAIN parentOf :
                                  parentOf[v] = parentOf[u] /\ StrLess(v, u)}))] @@ <<>>

Forests ==
    UNION {{ForestStore(parentOf) :
                parentOf \in {p \in [ForestIds(n) -> ForestIds(n) \cup {Null}] :
                                 \A u \in ForestIds(n) : ReachesRoot(p, u, n)}} :
           n \in 1..FMaxNodes}

\* A launch on a database that holds a forest, then one drop or one delete
InitForest ==
    /\ nodes \in Forests
    /\ tree = EmptyTree
    /\ crossref = <<>>
    /\ selectedNode = NoSelection
    /\ last = [op |-> "none"]
    /\ creating = NoCalls
    /\ SideInit

NextForest ==
    \/ OnMount(Leaf(IdPool[1]))
    \/ /\ last.op = "mount"
       /\ \E sourceId \in Rendered, targetId \in Rendered, dropIndicator \in DropIndicators :
             HandleDrop(sourceId, targetId, dropIndicator)
    \/ /\ last.op = "mount"
       /\ \E u \in Rendered, confirmed \in BOOLEAN : HandleDelete(u, confirmed)

SpecForest == InitForest /\ [][NextForest]_vars

\* The corpora of SpecXref have up to XMaxNodes nodes
XMaxNodes == 9

XrefTexts == <<"aaa bbb ccc", "Aaa, bbb", "It fixes aaa bbb ccc ddd">>

\* A database of k[1] + k[2] + k[3] root nodes, k[c] of them with the c-th
\* text as description, in id order
XrefStore(k) ==
    LET n == k[1] + k[2] + k[3]
        class(i) == IF i <= k[1] THEN 1 ELSE IF i <= k[1] + k[2] THEN 2 ELSE 3
    IN  [u \in {IdPool[i] : i \in 1..n} |->
            LET i == CHOOSE j \in 1..n : IdPool[j] = u
            IN  NodeRecord(u, Null, "N", "Entry", XrefTexts[class(i)], i - 1)] @@ <<>>

XrefStores ==
    {XrefStore(k) : k \in {q \in [1..3 -> 0..XMaxNodes] :
                              q[1] + q[2] + q[3] \in 2..XMaxNodes}}

\* A launch on a database that holds a corpus
InitXref ==
    /\ nodes \in XrefStores
    /\ tree = EmptyTree
    /\ crossref = <<>>
    /\ selectedNode = NoSelection
    /\ last = [op |-> "none"]
    /\ creating = NoCalls
    /\ SideInit

NextXref == OnMount(Leaf(IdPool[1]))

SpecXref == InitXref /\ [][NextXref]_vars

\* The corpora of SpecCensus have CMaxNodes nodes
CMaxNodes == 4

\* Descriptions with eleven distinct keywords between the first three, four
\* of them in two descriptions each; one that is a stop word, short tokens
\* and one keyword written twice; and an empty one
CensusTexts ==
    <<"xxx yyy aaa bbb ccc", "xxx yyy zzz www ddd", "zzz www eee fff ggg",
      "The xxx of it: Xxx", "">>

\* A database of root nodes, the i-th id of the pool with the description
\* CensusTexts[choice[i]]
CensusStore(choice) ==
    [u \in {IdPool[i] : i \in DOMAIN choice} |->
        LET i == CHOOSE j \in DOMAIN choice : IdPool[j] = u
        IN  NodeRecord(u, Null, "N", "Entry", CensusTexts[choice[i]], i - 1)] @@ <<>>

CensusStores ==
    {CensusStore(choice) : choice \in [1..CMaxNodes -> 1..Len(CensusTexts)]}

\* A launch on a database that holds such a corpus
InitCensus ==
    /\ nodes \in CensusStores
    /\ tree = EmptyTree
    /\ crossref = <<>>
    /\ selectedNode = NoSelection
    /\ last = [op |-> "none"]
    /\ creating = NoCalls
    /\ SideInit

NextCensus == OnMount(Leaf(IdPool[1]))

SpecCensus == InitCensus /\ [][NextCensus]_vars

\* The types and descriptions of the two-node corpora of SpecRelation: two
\* type pairs of TYPE_RULES (the relation of the first has an entry in
\* INVERSE_RELATIONS, that of the second has none), the type ReferenceValue,
\* relationship verbs beside a keyword of the name, and the ids of the two
\* nodes, alone and between spaces
RelationTypes ==
    <<"Entry", "Project", "Goal", "ReferenceValue", "Principle", "GuidingPrinciples">>

RelationTexts == <<"", "It fixes aaa", " u1 ", " u2 ", "u1", "u2", "It improves aaa">>

\* Two nodes named "Aaa bbb": both roots (shape 0), the second a child of the
\* first (shape 1) or the first a child of the second (shape 2)
RelationStore(shape, types, texts) ==
    (IdPool[1] :> NodeRecord(IdPool[1], IF shape = 2 THEN IdPool[2] ELSE Null, "Aaa bbb",
                             RelationTypes[types[1]], RelationTexts[texts[1]], 0))
    @@ (IdPool[2] :> NodeRecord(IdPool[2], IF shape = 1 THEN IdPool[1] ELSE Null, "Aaa bbb",
                                RelationTypes[types[2]], RelationTexts[texts[2]],
                                IF shape = 0 THEN 1 ELSE 0))

RelationStores ==
    {RelationStore(shape, types, texts) :
        shape \in 0..2,
        types \in [1..2 -> 1..Len(RelationTypes)],
        texts \in [1..2 -> 1..Len(RelationTexts)]}

\* A launch on a database that holds such a corpus
InitRelation ==
    /\ nodes \in RelationStores
    /\ tree = EmptyTree
    /\ crossref = <<>>
    /\ selectedNode = NoSelection
    /\ last = [op |-> "none"]
    /\ creating = NoCalls
    /\ SideInit

NextRelation == OnMount(Leaf(IdPool[1]))

SpecRelation == InitRelation /\ [][NextRelation]_vars

\* Corpora that came from an imported file: processImportedNode keeps the ID
\* fields of the file as the ids of the records
ImportedIds == <<"a", "a|b", "b|c", "c">>

ImportedTexts == <<"aaa bbb ccc", "aaa bbb", "ccc ddd">>

\* The file whose root has the first of ids and whose Items are the others,
\* the k-th with the description ImportedTexts[texts[k]]
ImportedFile(ids, texts) ==
    SourceNode(ids[1], "N", "Entry", ImportedTexts[texts[1]],
               <<>> \o [k \in 1..(Len(ids) - 1) |->
                           SourceNode(ids[k + 1], "N", "Entry",
                                      ImportedTexts[texts[k + 1]], <<>>)])

ImportedStores ==
    UNION {{importSourceJson(EmptyStore, ImportedFile(SortedIds(S), texts)).store :
               texts \in [1..Cardinality(S) -> 1..Len(ImportedTexts)]} :
           S \in (SUBSET Range(ImportedIds)) \ {{}}}

\* A launch on a database that holds an imported corpus
InitImported ==
    /\ nodes \in ImportedStores
    /\ tree = EmptyTree
    /\ crossref = <<>>
    /\ selectedNode = NoSelection
    /\ last = [op |-> "none"]
    /\ creating = NoCalls
    /\ SideInit

NextImported == OnMount(Leaf(IdPool[1]))

SpecImported == InitImported /\ [][NextImported]_vars

(***************************************************************************)
(* Orrery.svelte: the reactive block that walks the neighbourhood of the   *)
(* selected node and hands nodes and links to the graph.  localGraphNodes  *)
(* and localGraphLinks are kept as sets (ids, <<source, target>> pairs);   *)
(* the queue keeps its order.                                              *)
(***************************************************************************)
\* The largest value the Horizon slider is given here (the slider goes to 5)
MaxDistance == 3

\* if (!visited.has(id)) { visited.add(id); queue.push({ id, distance }) }
Enqueue(walk, id, distance) ==
    IF id \in walk.visited THEN walk
    ELSE [walk EXCEPT !.visited = @ \cup {id},
                      !.queue = Append(@, [id |-> id, distance |-> distance])]

RECURSIVE EnqueueFrom(_, _, _, _)
EnqueueFrom(walk, ids, i, distance) ==
    IF i > Len(ids) THEN walk
    ELSE EnqueueFrom(Enqueue(walk, ids[i], distance), ids, i + 1, distance)

\* $crossref[currentId] || []: the targets of the outbound links, in order
Outbound(index, currentId) ==
    IF currentId \in DOMAIN index
    THEN <<>> \o [k \in 1..Len(index[currentId]) |-> index[currentId][k].target_id]
    ELSE <<>>

RECURSIVE LinksOnto(_, _, _, _)
LinksOnto(links, sourceId, currentId, k) ==
    IF k > Len(links) THEN <<>>
    ELSE (IF links[k].target_id = currentId THEN <<sourceId>> ELSE <<>>)
            \o LinksOnto(links, sourceId, currentId, k + 1)

\* for (const sourceId in $crossref) for (const link of $crossref[sourceId])
\* if (link.target_id === currentId): the sources, once per such link
InboundOver(index, sourceIds, currentId) ==
    Flatten(<<>> \o [j \in 1..Len(sourceIds) |->
                        LinksOnto(index[sourceIds[j]], sourceIds[j], currentId, 1)])

Inbound(index, currentId) == InboundOver(index, SortedIds(DOMAIN index), currentId)

\* The two loops over the links of a node that is nearer than the horizon
ExpandLinks(walk, currentId, distance, outbound, inbound) ==
    EnqueueFrom(EnqueueFrom([walk EXCEPT !.links =
                                 @ \cup {<<currentId, outbound[k]>> : k \in 1..Len(outbound)}
                                   \cup {<<inbound[k], currentId>> : k \in 1..Len(inbound)}],
                            outbound, 1, distance + 1),
                inbound, 1, distance + 1)

\* A turn that still follows links at the horizon
VisitPastHorizon(walk, current, nodeMap, index, neighborhoodDistance) ==
    IF current.distance > neighborhoodDistance
    THEN [walk EXCEPT !.nodes = @ \cup ({current.id} \cap DOMAIN nodeMap)]
    ELSE ExpandLinks([walk EXCEPT !.nodes = @ \cup ({current.id} \cap DOMAIN nodeMap)],
                     current.id, current.distance,
                     Outbound(index, current.id), Inbound(index, current.id))

\* One turn of the while loop, for the queue entry current
Visit(walk, current, nodeMap, index, neighborhoodDistance) ==
    IF current.distance >= neighborhoodDistance
    THEN [walk EXCEPT !.nodes = @ \cup ({current.id} \cap DOMAIN nodeMap)]
    ELSE ExpandLinks([walk EXCEPT !.nodes = @ \cup ({current.id} \cap DOMAIN nodeMap)],
                     current.id, current.distance,
                     Outbound(index, current.id), Inbound(index, current.id))

RECURSIVE WalkFrom(_, _, _, _, _)
WalkStep(walk, head, nodeMap, index, neighborhoodDistance) ==
    IF Len(walk.queue) >= 0
    THEN WalkFrom(walk, head, nodeMap, index, neighborhoodDistance)
    ELSE walk

\* while (head < queue.length), head counted from 1
WalkFrom(walk, head, nodeMap, index, neighborhoodDistance) ==
    IF head > Len(walk.queue) THEN walk
    ELSE WalkStep(Visit(walk, walk.queue[head], nodeMap, index, neighborhoodDistance),
                  head + 1, nodeMap, index, neighborhoodDistance)

Walk(selectedId, nodeMap, index, neighborhoodDistance) ==
    WalkFrom([queue |-> <<[id |-> selectedId, distance |-> 0]>>,
              visited |-> {selectedId}, nodes |-> {}, links |-> {}],
             1, nodeMap, index, neighborhoodDistance)

\* finalLinks, and what Graph.graphData is given
GraphData(walk, neighborhoodDistance) ==
    [neighborhoodDistance |-> neighborhoodDistance,
     nodes |-> walk.nodes,
     links |-> {l \in walk.links : l[1] \in walk.nodes /\ l[2] \in walk.nodes},
     queue |-> walk.queue]

\* The reactive block for the values the stores hold
Drawn(selected, nodeMap, index, neighborhoodDistance) ==
    IF selected.id # Null /\ DOMAIN nodeMap # {}
    THEN GraphData(Walk(selected.id, nodeMap, index, neighborhoodDistance),
                   neighborhoodDistance)
    ELSE [NoGraph EXCEPT !.neighborhoodDistance = neighborhoodDistance]

\* The launch of the page, after which the block runs
OrreryMount(agora) ==
    /\ Launch(agora)
    /\ orrery' = Drawn(selectedNode', flatNodeMap(tree'), crossref',
                       orrery.neighborhoodDistance)
    /\ UNCHANGED <<creating, running, notifications, timers, clock>>

\* A click on a node, after which the block runs
OrrerySelect(u) ==
    /\ Select(u)
    /\ orrery' = Drawn(selectedNode', flatNodeMap(tree), crossref,
                       orrery.neighborhoodDistance)
    /\ UNCHANGED <<creating, running, notifications, timers, clock>>

\* The Horizon slider, shown while a node is selected
OrreryHorizon(distance) ==
    /\ Mounted
    /\ selectedNode.id # Null
    /\ distance # orrery.neighborhoodDistance
    /\ orrery' = Drawn(selectedNode, flatNodeMap(tree), crossref, distance)
    /\ UNCHANGED <<nodes, tree, crossref, selectedNode, last>>
    /\ UNCHANGED <<creating, running, notifications, timers, clock>>

\* Descriptions that link a node to those with the next or the same one:
\* chains and triangles of links
OrreryTexts == <<"aaa bbb", "aaa bbb ccc ddd", "ccc ddd eee fff", "eee fff", "">>

OMaxNodes == 4

OrreryStore(choice) ==
    [u \in {IdPool[i] : i \in DOMAIN choice} |->
        LET i == CHOOSE j \in DOMAIN choice : IdPool[j] = u
        IN  NodeRecord(u, Null, "N", "Entry", OrreryTexts[choice[i]], i - 1)] @@ <<>>

OrreryStores ==
    {OrreryStore(choice) : choice \in [1..OMaxNodes -> 1..Len(OrreryTexts)]}

InitOrrery ==
    /\ nodes \in OrreryStores
    /\ tree = EmptyTree
    /\ crossref = <<>>
    /\ selectedNode = NoSelection
    /\ last = [op |-> "none"]
    /\ creating = NoCalls
    /\ SideInit

NextOrrery ==
    \/ OrreryMount(Leaf(IdPool[1]))
    \/ \E u \in Rendered : OrrerySelect(u)
    \/ \E distance \in 1..MaxDistance : OrreryHorizon(distance)

SpecOrrery == InitOrrery /\ [][NextOrrery]_vars

(***************************************************************************)
(* createNode, await by await.  handleAddChild and handleAddRootNode are   *)
(* async: a second click is handled while the first call waits for the     *)
(* database.  A call reads the sibling count, then (after the await)       *)
(* draws its id and adds the record, then its handler reloads the stores.  *)
(***************************************************************************)
\* The most createNode calls in flight at once
MaxCalls == 2

Calls == 1..MaxCalls

IdleCall == [pc |-> "idle", parentId |-> Null, siblingCount |-> 0]

\* const siblingCount = await db.nodes.where({ parentId: parentId }).count();
CreateNodeCount(c, parentId) ==
    /\ Mounted
    /\ creating[c].pc = "idle"
    /\ parentId \in Rendered \cup {Null}
    /\ creating' = [creating EXCEPT ![c] =
                       [pc |-> "counted", parentId |-> parentId,
                        siblingCount |-> SiblingCount(nodes, parentId)]]
    /\ UNCHANGED <<nodes, tree, crossref, selectedNode, last, side>>

\* The record a call adds once its count has come back
CreatedRecord(store, call) ==
    NodeRecord(FreshId(store), call.parentId, "New Node", "Node", "", call.siblingCount)

\* const newId = crypto.randomUUID(); ... await db.nodes.add(newNode);
CreateNodeAdd(c) ==
    /\ creating[c].pc = "counted"
    /\ nodes' = AddRecord(nodes, CreatedRecord(nodes, creating[c]))
    /\ creating' = [creating EXCEPT ![c].pc = "added"]
    /\ UNCHANGED <<tree, crossref, selectedNode, last, side>>

\* await loadTree(); await loadCrossref(); of the handler that made the call
CreateNodeReload(c) ==
    /\ creating[c].pc = "added"
    /\ Reload(nodes)
    /\ creating' = [creating EXCEPT ![c].pc = "done"]
    /\ UNCHANGED <<nodes, selectedNode, last, side>>

\* A launch on a database that holds a forest, then MaxCalls clicks on
\* "add child" or "add root node"
InitCreate ==
    /\ nodes \in Forests
    /\ tree = EmptyTree
    /\ crossref = <<>>
    /\ selectedNode = NoSelection
    /\ last = [op |-> "none"]
    /\ creating = [c \in Calls |-> IdleCall]
    /\ SideInit

NextCreate ==
    \/ OnMount(Leaf(IdPool[1]))
    \/ \E c \in Calls, parentId \in Rendered \cup {Null} : CreateNodeCount(c, parentId)
    \/ \E c \in Calls : CreateNodeAdd(c)
    \/ \E c \in Calls : CreateNodeReload(c)

SpecCreate == InitCreate /\ [][NextCreate]_vars

(***************************************************************************)
(* +page.svelte, TreeNode.svelte: the handlers await by await.  A handler  *)
(* that was started runs up to its next await in one step; the steps of    *)
(* the handlers in flight interleave.  The database runs the transactions  *)
(* on the nodes table one after the other, and the code after an await of  *)
(* a database call runs before the next transaction's events are           *)
(* delivered: a store call and the synchronous code after it are one step. *)
(***************************************************************************)
\* The most handlers started after the launch
MaxHandlers == 2

\* Slot 0 is onMount; the others are the handlers the user starts
Handlers == 0..MaxHandlers

NoArg == [none |-> TRUE]

IdleHandler == [kind |-> "idle", pc |-> "idle", arg |-> NoArg]

Quiet(h) == running[h].pc \in {"idle", "done"}

\* While a call never returns nothing else runs on the page
Hung == \E h \in Handlers : running[h].pc = "hung"

\* The user gets to a handler's button while the earlier slots are taken
Free(h) ==
    /\ h \in 1..MaxHandlers
    /\ running[h].pc = "idle"
    /\ \A g \in 1..(h - 1) : running[g].pc # "idle"

Start(h, kind, pc, arg) ==
    /\ Free(h)
    /\ ~Hung
    /\ running' = [running EXCEPT ![h] = [kind |-> kind, pc |-> pc, arg |-> arg]]
    /\ UNCHANGED <<nodes, tree, crossref, selectedNode, last, creating,
                   orrery, notifications, timers, clock>>

\* handleAddRootNode up to createNode's await of the count
StartAddRootNode(h) ==
    Start(h, "create", "begun",
          [parentId |-> Null, siblingCount |-> SiblingCount(nodes, Null)])

\* handleAddChild up to createNode's await of the count
StartAddChild(h, u) ==
    /\ u \in Rendered
    /\ Start(h, "create", "begun",
             [parentId |-> u, siblingCount |-> SiblingCount(nodes, u)])

\* handleDelete up to the answer of the confirmation dialog
StartDelete(h, u, confirmed) ==
    /\ u \in Rendered
    /\ Start(h, "delete", IF confirmed THEN "begun" ELSE "done", [nodeId |-> u])

\* handleSave up to the await of updateNode
StartSave(h, changes) ==
    /\ selectedNode.id # Null
    /\ Start(h, "save", "begun", [nodeId |-> selectedNode.id, changes |-> changes])

\* handleDrop up to the await of reorderNode, or to its early return
StartDrop(h, sourceId, targetId, dropIndicator) ==
    /\ sourceId \in Rendered
    /\ targetId \in Rendered
    /\ dropIndicator \in DropIndicators
    /\ IF \/ DropRejected(tree, sourceId, targetId)
          \/ sourceId = targetId /\ dropIndicator # "on"
       THEN Start(h, "drop", "done", [sourceId |-> sourceId])
       ELSE Start(h, "drop", "begun",
                  [sourceId |-> sourceId,
                   newParentId |-> DropParent(tree, targetId, dropIndicator),
                   newSortOrder |-> DropSortOrder(tree, targetId, dropIndicator)])

\* handleImportCore up to the await of importSourceJson
StartImportCore(h, rootSourceNode) ==
    Start(h, "import", "begun", [rootSourceNode |-> rootSourceNode])

\* handleResetToAgora up to the await of seedDatabaseWithAgora
StartResetToAgora(h, agora) ==
    Start(h, "reset", "begun", [rootSourceNode |-> agora])

\* handleApplyPatch up to the await of applyPatchFromClipboard
StartApplyPatch(h, patchData) ==
    Start(h, "patch", "begun", [patchData |-> patchData])

\* The ids the tree, the selection and the handlers in flight hold: a random
\* UUID repeats none of them
HeldIds ==
    Rendered \cup {selectedNode.id}
    \cup UNION {{running[h].arg[f] : f \in DOMAIN running[h].arg
                                          \cap {"parentId", "nodeId", "sourceId", "newParentId"}} :
                   h \in Handlers}

\* The store call a handler awaits: what it leaves in the store and whether
\* it returned (ok) or threw
AwaitedCall(store, call) ==
    CASE call.kind = "create" ->
            [ok |-> TRUE,
             store |-> AddRecord(store,
                                 NodeRecord(FreshIdAvoiding(store, HeldIds), call.arg.parentId,
                                            "New Node", "Node", "", call.arg.siblingCount))]
      [] call.kind = "delete" ->
            [ok |-> TRUE, store |-> deleteNodeAndChildren(store, call.arg.nodeId)]
      [] call.kind = "save" ->
            [ok |-> TRUE, store |-> updateNode(store, call.arg.nodeId, call.arg.changes)]
      [] call.kind = "drop" ->
            [ok |-> TRUE,
             store |-> reorderNode(store, call.arg.sourceId, call.arg.newParentId,
                                   call.arg.newSortOrder)]
      [] call.kind = "import" -> importSourceJson(store, call.arg.rootSourceNode)
      [] call.kind \in {"reset", "mount"} ->
            seedDatabaseWithAgora(store, call.arg.rootSourceNode)
      [] call.kind = "patch" ->
            LET done == applyPatchFromClipboard(store, call.arg.patchData)
            IN  [ok |-> done.outcome = "applied", store |-> done.store]

\* onMount: const count = await db.nodes.count();
MountCount ==
    /\ ~Hung
    /\ running[0].pc = "begun"
    /\ running' = [running EXCEPT ![0].pc =
                      IF Cardinality(DOMAIN nodes) = 0 THEN "seeding" ELSE "mutated"]
    /\ UNCHANGED <<nodes, tree, crossref, selectedNode, last, creating,
                   orrery, notifications, timers, clock>>

\* The awaited store call comes back: the handler goes on to its reloads, or
\* to its catch block (or to its caller's) when the call threw.  handleDelete
\* drops the selection of the deleted node before it reloads.
Settle(h) ==
    /\ ~Hung
    /\ running[h].pc = IF h = 0 THEN "seeding" ELSE "begun"
    /\ LET done == AwaitedCall(nodes, running[h])
       IN  /\ nodes' = done.store
           /\ running' = [running EXCEPT ![h].pc = IF done.ok THEN "mutated" ELSE "done"]
    /\ selectedNode' = IF /\ running[h].kind = "delete"
                          /\ selectedNode.id = running[h].arg.nodeId
                       THEN NoSelection ELSE selectedNode
    /\ UNCHANGED <<tree, crossref, last, creating,
                   orrery, notifications, timers, clock>>

\* await loadTree();
LoadTree(h) ==
    /\ ~Hung
    /\ running[h].pc = "mutated"
    /\ tree' = loadTree(nodes)
    /\ running' = [running EXCEPT ![h].pc = "tree"]
    /\ UNCHANGED <<nodes, crossref, selectedNode, last, creating,
                   orrery, notifications, timers, clock>>

\* The selection a handler sets after its reloads; handleSave reads
\* $selectedNode.id again and throws when nothing is selected any more
SelectionAfter(call, t, selected) ==
    CASE call.kind \in {"mount", "import", "reset"} -> FirstRoot(t)
      [] call.kind = "patch" -> NoSelection
      [] call.kind = "save" ->
            IF selected.id = Null THEN selected ELSE FindNode(t, selected.id)
      [] OTHER -> selected

\* isAncestor never returns for a walk over a cycle of parentIds that does
\* not hold the id looked for
WalkHangs(store, childId, potentialAncestorId) ==
    AncestorWalk(childId, potentialAncestorId, store, Cardinality(DOMAIN store) + 1)
        = "diverges"

\* inferRelationship(nodeA, nodeB, ...) gets to a call of isAncestor that
\* never returns
InferenceHangs(store, a, b) ==
    /\ store[a].parentId # b
    /\ store[b].parentId # a
    /\ ~(store[a].parentId # Null /\ store[a].parentId = store[b].parentId)
    /\ \/ WalkHangs(store, a, b)
       \/ ~isAncestor(a, b, store) /\ WalkHangs(store, b, a)

\* generateCrossReferences never returns: two nodes it links are a pair on
\* which inferRelationship hangs whichever of the two is passed first
Hangs(store, index) ==
    \E a \in DOMAIN index : \E k \in 1..Len(index[a]) :
        /\ InferenceHangs(store, a, index[a][k].target_id)
        /\ InferenceHangs(store, index[a][k].target_id, a)

\* A handler that ends without regenerating the index
LoadCrossrefSkipped(h) ==
    /\ ~Hung
    /\ running[h].pc = "tree"
    /\ selectedNode' = SelectionAfter(running[h], tree, selectedNode)
    /\ running' = [running EXCEPT ![h].pc = "done"]
    /\ UNCHANGED <<nodes, tree, crossref, last, creating,
                   orrery, notifications, timers, clock>>

\* The end of loadCrossref and of the handler, or the page stuck in the call
CrossrefLoaded(h, index) ==
    IF Hangs(nodes, index)
    THEN /\ running' = [running EXCEPT ![h].pc = "hung"]
         /\ UNCHANGED <<crossref, selectedNode>>
    ELSE /\ crossref' = index
         /\ selectedNode' = SelectionAfter(running[h], tree, selectedNode)
         /\ running' = [running EXCEPT ![h].pc = "done"]

\* await loadCrossref(); and the rest of the handler
LoadCrossref(h) ==
    /\ ~Hung
    /\ running[h].pc = "tree"
    /\ CrossrefLoaded(h, loadCrossref(nodes))
    /\ UNCHANGED <<nodes, tree, last, creating,
                   orrery, notifications, timers, clock>>

\* Agora.json of SpecAwait
AwaitAgora ==
    SourceNode("u1", "New Node", "Node", "alpha beta",
               <<SourceNode("u2", "New Node", "Node", "alpha beta", <<>>)>>)

\* The files and patches of SpecAwait
AwaitTrees ==
    { AwaitAgora,
      SourceNode("u1", "New Node", "Node", "", <<Leaf("u2"), Leaf("u2")>>) }

AwaitPatches(store) ==
    {<<[op |-> "add", parent_uuid |-> u, node |-> PLeaf]>> : u \in DOMAIN store}
    \cup {<<[op |-> "remove", uuid |-> u]>> : u \in DOMAIN store}
    \cup {<<[op |-> "remove", uuid |-> Ghost, storeError |-> TRUE]>>}

AwaitStores ==
    {EmptyStore,
     ForestStore(("u1" :> Null) @@ ("u2" :> "u1"))}

\* A launch on an empty database or on one that holds a parent and its
\* child, and up to MaxHandlers handlers started while it runs or after it
InitAwait ==
    /\ nodes \in AwaitStores
    /\ tree = EmptyTree
    /\ crossref = <<>>
    /\ selectedNode = NoSelection
    /\ last = [op |-> "none"]
    /\ creating = NoCalls
    /\ orrery = NoGraph
    /\ running = [h \in Handlers |->
                    IF h = 0
                    THEN [kind |-> "mount", pc |-> "begun",
                          arg |-> [rootSourceNode |-> AwaitAgora]]
                    ELSE IdleHandler]
    /\ notifications = <<>>
    /\ timers = {}
    /\ clock = 0

NextAwait ==
    \/ MountCount
    \/ \E h \in Handlers : Settle(h)
    \/ \E h \in Handlers : LoadTree(h)
    \/ \E h \in Handlers : LoadCrossref(h)
    \/ \E h \in Handlers : StartAddRootNode(h)
    \/ \E h \in Handlers, u \in Rendered : StartAddChild(h, u)
    \/ \E h \in Handlers, u \in Rendered, confirmed \in BOOLEAN : StartDelete(h, u, confirmed)
    \/ \E h \in Handlers, changes \in EditChoices : StartSave(h, changes)
    \/ \E h \in Handlers, sourceId \in Rendered, targetId \in Rendered,
          dropIndicator \in DropIndicators : StartDrop(h, sourceId, targetId, dropIndicator)
    \/ \E h \in Handlers, rootSourceNode \in AwaitTrees : StartImportCore(h, rootSourceNode)
    \/ \E h \in Handlers : StartResetToAgora(h, AwaitAgora)
    \/ \E h \in Handlers, patchData \in AwaitPatches(nodes) : StartApplyPatch(h, patchData)

SpecAwait == InitAwait /\ [][NextAwait]_vars

\* A launch on a database that holds three roots, and up to MaxHandlers
\* drops while it runs or after it: a second drop that is validated
\* against the tree from before the first drop's reload
InitDrops ==
    /\ nodes = ForestStore(("u1" :> Null) @@ ("u2" :> Null) @@ ("u3" :> Null))
    /\ tree = EmptyTree
    /\ crossref = <<>>
    /\ selectedNode = NoSelection
    /\ last = [op |-> "none"]
    /\ creating = NoCalls
    /\ orrery = NoGraph
    /\ running = [h \in Handlers |->
                    IF h = 0
                    THEN [kind |-> "mount", pc |-> "begun",
                          arg |-> [rootSourceNode |-> AwaitAgora]]
                    ELSE IdleHandler]
    /\ notifications = <<>>
    /\ timers = {}
    /\ clock = 0

NextDrops ==
    \/ MountCount
    \/ \E h \in Handlers : Settle(h)
    \/ \E h \in Handlers : LoadTree(h)
    \/ \E h \in Handlers : LoadCrossref(h)
    \/ \E h \in Handlers, sourceId \in Rendered, targetId \in Rendered,
          dropIndicator \in DropIndicators : StartDrop(h, sourceId, targetId, dropIndicator)

SpecDrops == InitDrops /\ [][NextDrops]_vars

(***************************************************************************)
(* Imports: the files the user picks and the Agora template are trees of   *)
(* up to three nodes whose IDs are drawn from three ids, so that some      *)
(* files name an ID twice.                                                 *)
(***************************************************************************)
FileIds == {"u1", "u2", "u3"}

FileShapes == {"leaf", "chain2", "chain3", "fan"}

FileNode(ID, Description, Items) == SourceNode(ID, "New Node", "Node", Description, Items)

FileOf(shape, id) ==
    CASE shape = "leaf" -> FileNode(id[1], "alpha beta", <<>>)
      [] shape = "chain2" -> FileNode(id[1], "alpha beta", <<FileNode(id[2], "alpha beta", <<>>)>>)
      [] shape = "chain3" ->
            FileNode(id[1], "alpha beta",
                     <<FileNode(id[2], "alpha beta", <<FileNode(id[3], "", <<>>)>>)>>)
      [] shape = "fan" ->
            FileNode(id[1], "alpha beta",
                     <<FileNode(id[2], "alpha beta", <<>>), FileNode(id[3], "", <<>>)>>)

ImportFiles == {FileOf(shape, id) : shape \in FileShapes, id \in [1..3 -> FileIds]}

\* First launch with one of the files as Agora.json, then imports and resets
NextImport ==
    \/ \E agora \in ImportFiles : OnMount(agora)
    \/ \E rootSourceNode \in ImportFiles : HandleImportCore(rootSourceNode)
    \/ \E agora \in ImportFiles : HandleResetToAgora(agora)

SpecImport == Init /\ [][NextImport]_vars

(***************************************************************************)
(* notifications.ts, NotificationDisplay.svelte.  notifications is the     *)
(* list of the store, newest first; timers is the set of keys of the       *)
(* timers Map; clock is the reading of Date.now().                         *)
(***************************************************************************)
\* The last clock reading and the longest list of SpecNotify
MaxClock == 3

MaxNotifications == 3

DefaultTimeout == 5000

\* The calls of notify: all of the program's calls leave the timeout out; a
\* timeout of 0 makes a notification that stays until it is closed
NotifyCalls ==
    {[message |-> "Export failed.", type |-> "error", timeout |-> DefaultTimeout],
     [message |-> "Clipboard is empty.", type |-> "error", timeout |-> 0]}

\* notifications.update((all) => [{ id, type, message, timeout }, ...all])
\* with id = Date.now()
Notified(all, now, call) ==
    <<[id |-> now, type |-> call.type, message |-> call.message,
       timeout |-> call.timeout]>> \o all

\* notifications.update((all) => all.filter((n) => n.id !== id))
Dismissed(all, id) == SelectSeq(all, LAMBDA n : n.id # id)

IdsOf(all) == {all[i].id : i \in 1..Len(all)}

\* The subscribe callback of NotificationDisplay, which the store calls at
\* every update: a timer for every listed id that has none and a positive
\* timeout, then clearTimer for every key that is not listed
Subscribed(keys, all) ==
    (keys \cup {all[i].id : i \in {k \in 1..Len(all) : all[k].timeout > 0}}) \cap IdsOf(all)

\* Time passes
Tick ==
    /\ clock < MaxClock
    /\ clock' = clock + 1
    /\ UNCHANGED <<nodes, tree, crossref, selectedNode, last, creating,
                   orrery, running, notifications, timers>>

\* notify(message, type, timeout), and the callback it triggers
Notify(call) ==
    /\ Len(notifications) < MaxNotifications
    /\ notifications' = Notified(notifications, clock, call)
    /\ timers' = Subscribed(timers, notifications')
    /\ last' = [op |-> "notify", removed |-> 0]
    /\ UNCHANGED <<nodes, tree, crossref, selectedNode, creating, orrery, running, clock>>

\* A patch that fails: the catch of applyPatchFromClipboard notifies and
\* rethrows, the catch of handleApplyPatch notifies again, at the same
\* reading of the clock (when the clock moves between the two, the steps are
\* those of two Notify)
PatchFailureNotified ==
    /\ Len(notifications) + 2 <= MaxNotifications
    /\ LET first == Notified(notifications, clock,
                             [message |-> "Failed to apply patch: Invalid operation format.",
                              type |-> "error", timeout |-> DefaultTimeout])
           both == Notified(first, clock,
                            [message |-> "Patch application cancelled or failed.",
                             type |-> "error", timeout |-> DefaultTimeout])
       IN  /\ notifications' = both
           /\ timers' = Subscribed(Subscribed(timers, first), both)
    /\ last' = [op |-> "patch", removed |-> 0]
    /\ UNCHANGED <<nodes, tree, crossref, selectedNode, creating, orrery, running, clock>>

\* handleClose(id): clearTimer(id), dismissNotification(id), and the callback
HandleClose(id) ==
    /\ id \in IdsOf(notifications)
    /\ notifications' = Dismissed(notifications, id)
    /\ timers' = Subscribed(timers \ {id}, notifications')
    /\ last' = [op |-> "dismiss", removed |-> Len(notifications) - Len(notifications')]
    /\ UNCHANGED <<nodes, tree, crossref, selectedNode, creating, orrery, running, clock>>

\* The timeout of a timer set by the callback: dismissNotification(n.id),
\* the callback, timers.delete(n.id)
TimerFires(id) ==
    /\ id \in timers
    /\ notifications' = Dismissed(notifications, id)
    /\ timers' = Subscribed(timers, notifications') \ {id}
    /\ last' = [op |-> "timeout", removed |-> Len(notifications) - Len(notifications')]
    /\ UNCHANGED <<nodes, tree, crossref, selectedNode, creating, orrery, running, clock>>

\* The page with no notification shown
InitNotify ==
    /\ nodes = EmptyStore
    /\ tree = EmptyTree
    /\ crossref = <<>>
    /\ selectedNode = NoSelection
    /\ last = [op |-> "none", removed |-> 0]
    /\ creating = NoCalls
    /\ SideInit

NextNotify ==
    \/ Tick
    \/ \E call \in NotifyCalls : Notify(call)
    \/ PatchFailureNotified
    \/ \E id \in IdsOf(notifications) : HandleClose(id)
    \/ \E id \in timers : TimerFires(id)

SpecNotify == InitNotify /\ [][NextNotify]_vars

(***************************************************************************)
(* io.ts: export.  getTreeAsSourceJson builds one SourceJsonNode per       *)
(* record and returns the one assigned to rootNode last.                   *)
(***************************************************************************)
\* null: nothing to export
NoTree == [none |-> TRUE]

\* The SourceJsonNode of a record once the second forEach is over: its Items
\* are the nodes pushed to it, in the order of flatNodes
RECURSIVE ExportedNode(_, _)
ExportedNode(flatNodes, node) ==
    LET pushed == SelectSeq(flatNodes, LAMBDA child : child.parentId # Null
                                                      /\ child.parentId = node.id)
    IN  SourceNode(node.id, node.name, node.type, node.description,
                   <<>> \o [k \in 1..Len(pushed) |-> ExportedNode(flatNodes, pushed[k])])

getTreeAsSourceJson(store) ==
    LET flatNodes == <<>> \o FlatNodesOf(store)
        rootless == SelectSeq(flatNodes, LAMBDA node : node.parentId = Null)
    IN  IF Len(rootless) = 0 THEN NoTree
        ELSE ExportedNode(flatNodes, rootless[Len(rootless)])

\* handleExport: exportAll downloads the tree as source.json (last.file) and
\* the page notifies; with nothing to export exportAll notifies and no file
\* is written
HandleExport ==
    /\ last.op = "mount"
    /\ LET rootNode == getTreeAsSourceJson(nodes)
       IN  /\ last' = [op |-> "export", file |-> rootNode]
           /\ notifications' =
                 Notified(notifications, clock,
                          IF rootNode = NoTree
                          THEN [message |-> "Memory is empty. Nothing to export.",
                                type |-> "error", timeout |-> DefaultTimeout]
                          ELSE [message |-> "Snapshot saved", type |-> "success",
                                timeout |-> DefaultTimeout])
    /\ timers' = Subscribed(timers, notifications')
    /\ UNCHANGED <<nodes, tree, crossref, selectedNode, creating, orrery, running, clock>>

\* The user imports the file the export has written
ImportExported ==
    /\ last.op = "export"
    /\ last.file # NoTree
    /\ HandleImportCore(last.file)

\* The databases of SpecExport: up to FMaxNodes records whose parentIds name
\* a record, nothing, or an id that is not stored, without a cycle
ExportStores ==
    UNION {{ForestStore(parentOf) :
                parentOf \in {p \in [ForestIds(n) -> ForestIds(n) \cup {Null, Ghost}] :
                                 \A u \in ForestIds(n) :
                                    ReachesRoot([v \in ForestIds(n) \cup {Ghost} |->
                                                   IF v = Ghost THEN Null ELSE p[v]], u, n + 1)}} :
           n \in 1..FMaxNodes}

\* A launch on a database that holds records, an export, and the import of
\* the exported file
InitExport ==
    /\ nodes \in ExportStores
    /\ tree = EmptyTree
    /\ crossref = <<>>
    /\ selectedNode = NoSelection
    /\ last = [op |-> "none"]
    /\ creating = NoCalls
    /\ SideInit

NextExport ==
    \/ OnMount(Leaf(IdPool[1]))
    \/ HandleExport
    \/ ImportExported

SpecExport == InitExport /\ [][NextExport]_vars

(***************************************************************************)
(* Properties                                                              *)
(***************************************************************************)
\* The nodes of the store that reach a through parentId links, and a itself
RECURSIVE GrowSubtree(_, _)
GrowSubtree(store, members) ==
    IF \E u \in DOMAIN store \ members : store[u].parentId \in members
    THEN GrowSubtree(store, members \cup {u \in DOMAIN store : store[u].parentId \in members})
    ELSE members

SubtreeOf(store, a) == GrowSubtree(store, {a})

\* The parent a drop asks for, read from the store
NewParentOf(store, targetId, dropIndicator) ==
    IF dropIndicator = "on" THEN targetId ELSE store[targetId].parentId

\* C1: a drop ('before', 'after' or 'on') whose new parent is the dragged
\* node or one of its descendants is rejected, and the store and the
\* in-memory tree are after it what they were before it.
ReparentRejection ==
    [][\A sourceId \in Rendered, targetId \in Rendered, dropIndicator \in DropIndicators :
          (/\ NewParentOf(nodes, targetId, dropIndicator) \in SubtreeOf(nodes, sourceId)
           /\ HandleDrop(sourceId, targetId, dropIndicator))
          => (last'.outcome = "rejected" /\ nodes' = nodes /\ tree' = tree)]_vars

\* A drop onto a proper descendant of the dragged node was rejected
RejectedDescendantDrop ==
    last.op = "drop" /\ last.outcome = "rejected" /\ ~last.self

\* The ids met when following parentId from the parent of u
RECURSIVE AncestorsFrom(_, _, _)
AncestorsFrom(store, p, seen) ==
    IF p \notin DOMAIN store \/ p \in seen THEN seen
    ELSE AncestorsFrom(store, store[p].parentId, seen \cup {p})

AncestorsOf(store, u) == AncestorsFrom(store, store[u].parentId, {})

DeleteSubtreeCompleteness ==
    [][\A u \in Rendered :
          HandleDelete(u, TRUE)
          => /\ DOMAIN nodes' = DOMAIN nodes \ SubtreeOf(nodes, u)
             /\ \A v \in DOMAIN nodes' : nodes'[v] = nodes[v]]_vars

\* A delete removed a node together with a child of one of its children
DeletedDeepSubtree ==
    last.op = "delete" /\ last.confirmed /\ last.removed >= 3 /\ last.indirect

\* The ids that are the id of no stored node
AbsentIds(store) == (Range(IdPool) \cup {Ghost}) \ DOMAIN store

\* C4: deleteNodeAndChildren of an id that no stored node has leaves the
\* store unchanged, also when stored nodes carry the id as their parentId.
DeleteAbsentIsNoOp ==
    \A id \in AbsentIds(nodes) : deleteNodeAndChildren(nodes, id) = nodes

\* link has a reciprocal in the list of its target
HasReciprocal(index, a, link) ==
    /\ link.target_id \in DOMAIN index
    /\ \E j \in 1..Len(index[link.target_id]) :
          /\ index[link.target_id][j].target_id = a
          /\ index[link.target_id][j].relation = InverseOf(link.relation)
          /\ index[link.target_id][j].confidence = link.confidence
          /\ index[link.target_id][j].provenance = link.provenance

\* C5: for every link (A -> B, R, C, P) of the index there is a link
\* (B -> A, inverse(R), C, P) in the list of B.
CrossrefSymmetry ==
    \A a \in DOMAIN crossref :
        \A i \in 1..Len(crossref[a]) : HasReciprocal(crossref, a, crossref[a][i])

\* The links a node had before the truncation, with their confidence
Candidates(scored, u) == ProcessedLinks(scored.tempCrossrefs[u], scored.maxWeight)

KeptTargets(links) == {links[i].target_id : i \in 1..Len(links)}

PrunedFrom(kept, candidates) ==
    /\ Len(kept) <= MAX_LINKS_PER_NODE
    /\ \A i \in 1..Len(kept) : \A j \in i..Len(kept) :
          kept[i].confidence >= kept[j].confidence
    /\ \A c \in 1..Len(candidates) :
          candidates[c].target_id \notin KeptTargets(kept)
          => \A i \in 1..Len(kept) : candidates[c].confidence <= kept[i].confidence

PrunedIndex(index, scored) ==
    \A u \in DOMAIN index : PrunedFrom(index[u], Candidates(scored, u))

\* C6: every list of the index has at most MAX_LINKS_PER_NODE links, in
\* order of non-increasing confidence, and every link the truncation dropped
\* has a confidence no larger than that of every link kept.
PruningCap == PrunedIndex(crossref, TempCrossrefs(AllNodesOf(nodes)))

TruncatedAt(index, scored) ==
    \E u \in DOMAIN index :
        /\ Len(index[u]) = MAX_LINKS_PER_NODE
        /\ Len(scored.tempCrossrefs[u]) > MAX_LINKS_PER_NODE

\* The index has a list that the truncation shortened
TruncatedList == TruncatedAt(crossref, TempCrossrefs(AllNodesOf(nodes)))

WeightsWithin(scored) ==
    \A u \in DOMAIN scored.tempCrossrefs :
        \A i \in 1..Len(scored.tempCrossrefs[u]) :
            /\ MIN_SHARED_KEYWORDS_THRESHOLD <= scored.tempCrossrefs[u][i].weight
            /\ scored.tempCrossrefs[u][i].weight <= scored.maxWeight

\* C7: every confidence of the index lies in [0, 1] (0..1000 thousandths),
\* and every emitted link has a weight from 2 to the maxWeight of the run.
ConfidenceBounds ==
    /\ \A u \in DOMAIN crossref :
          \A i \in 1..Len(crossref[u]) :
              crossref[u][i].confidence >= 0 /\ crossref[u][i].confidence <= 1000
    /\ WeightsWithin(TempCrossrefs(AllNodesOf(nodes)))

\* The index holds a link at the top of the range and one below it
ConfidenceSpread ==
    /\ \E u \in DOMAIN crossref : \E i \in 1..Len(crossref[u]) :
          crossref[u][i].confidence = 1000
    /\ \E u \in DOMAIN crossref : \E i \in 1..Len(crossref[u]) :
          crossref[u][i].confidence < 1000

\* The links of the index, over all lists
AllLinks(index) == UNION {Range(index[u]) : u \in DOMAIN index}

\* The weight of an emitted link: the number of shared keywords it lists
WeightOf(link) == Len(link.provenance)

\* C8: of two links of one index, the one of no larger weight has no larger
\* confidence (so links of equal weight have equal confidence).
ConfidenceMonotone ==
    \A l1 \in AllLinks(crossref) : \A l2 \in AllLinks(crossref) :
        WeightOf(l1) <= WeightOf(l2) => l1.confidence <= l2.confidence

\* The index holds two links of different weights and different confidences
WeightsDiffer ==
    \E l1 \in AllLinks(crossref) : \E l2 \in AllLinks(crossref) :
        WeightOf(l1) < WeightOf(l2) /\ l1.confidence < l2.confidence

\* What the loop of a patch leaves when it runs over every operation
LoopOver(store, patchData) ==
    ApplyOpsFrom(LoopStart(store, patchData), patchData, 1)

AllOrNothing(before, after, loop) ==
    after = before \/ (~loop.thrown /\ after = loop.store)

\* C9: applyPatchFromClipboard leaves the store either with the effect of
\* every operation of the patch or exactly as it was before the call.
PatchAtomicity ==
    [][last'.op = "patch" => AllOrNothing(nodes, nodes', LoopOver(nodes, last'.patch))]_vars

\* A patch failed at its second operation after its first had written
FailedAfterWrite ==
    /\ last.op = "patch" /\ last.outcome = "failed"
    /\ Len(last.patch) = 2 /\ last.writes > 0

HasField(op, f) == f \in DOMAIN op

\* An operation with a missing required field, an unknown tag or an
\* unknown field name
InvalidOp(op) ==
    \/ op.op \notin {"add", "remove", "replace"}
    \/ op.op = "add" /\ ~(HasField(op, "parent_uuid") /\ HasField(op, "node"))
    \/ op.op = "remove" /\ ~HasField(op, "uuid")
    \/ op.op = "replace" /\ ~(HasField(op, "uuid") /\ HasField(op, "field")
                                /\ HasField(op, "value"))
    \/ op.op = "replace" /\ HasField(op, "field")
                         /\ op.field \notin {"Name", "Type", "Description"}

\* C10: a patch with an invalid operation is rejected before any operation
\* of it has written to the store.
ValidationPrecedesMutation ==
    (last.op = "patch" /\ \E i \in 1..Len(last.patch) : InvalidOp(last.patch[i]))
    => (last.outcome # "applied" /\ last.writes = 0)

\* C11: no two stored nodes with the same parentId have the same sortOrder.
SiblingSortOrderUnique ==
    \A u \in DOMAIN nodes, v \in DOMAIN nodes :
        (u # v /\ nodes[u].parentId = nodes[v].parentId)
            => nodes[u].sortOrder # nodes[v].sortOrder

\* C12: whatever the interleaving of the createNode calls in flight, the
\* node a call inserts gets an id no stored node has, and a sortOrder equal
\* to the number of stored nodes with its parentId when it is inserted.
CreateIsAtomic ==
    [][\A c \in Calls :
          (creating[c].pc = "counted" /\ CreateNodeAdd(c))
              => /\ CreatedRecord(nodes, creating[c]).id \notin DOMAIN nodes
                 /\ CreatedRecord(nodes, creating[c]).sortOrder
                        = SiblingCount(nodes, creating[c].parentId)]_vars

\* How often the node object u is referenced from the root list and the
\* children lists of t
CountIn(s, u) == Cardinality({k \in 1..Len(s) : s[k] = u})

Occurrences(t, u) ==
    LET holders == DOMAIN t.children
        PerHolder == [v \in holders |-> CountIn(t.children[v], u)]
        RECURSIVE Sum(_)
        Sum(S) == IF S = {} THEN 0
                  ELSE LET v == CHOOSE w \in S : TRUE IN PerHolder[v] + Sum(S \ {v})
    IN  CountIn(t.roots, u) + Sum(holders)

Preserves(store, t) ==
    /\ \A u \in DOMAIN store : Occurrences(t, u) = 1
    /\ FlatNodeIds(t) = DOMAIN store
    /\ Cardinality(FlatNodeIds(t)) = Cardinality(DOMAIN store)
    /\ \A u \in DOMAIN store :
          store[u].parentId \notin DOMAIN store => CountIn(t.roots, u) = 1

Relabellings(store) ==
    {p \in [DOMAIN store -> DOMAIN store] :
        \A u \in DOMAIN store, v \in DOMAIN store : p[u] = p[v] => u = v}

\* The same nodes under other ids: db.nodes.toArray() presents them in
\* another order
Relabelled(store, p) ==
    [w \in DOMAIN store |->
        LET u == CHOOSE v \in DOMAIN store : p[v] = w
        IN  [store[u] EXCEPT !.id = w,
                             !.parentId = IF @ \in DOMAIN store THEN p[@] ELSE @]] @@ <<>>

CensusOf(allNodes) == GlobalKeywordCounts(InitialKeywords(allNodes)).count

\* The significant keyword set of the node with id u
SignificantSet(allNodes, significant, u) == Range(significant[IndexOfId(allNodes, u)])

SignificantSetIn(allNodes, u) == SignificantSet(allNodes, SignificantKeywords(allNodes), u)

\* The shared significant keyword count of two nodes
PairWeight(allNodes, significant, u, v) ==
    Len(setIntersection(significant[IndexOfId(allNodes, u)],
                        significant[IndexOfId(allNodes, v)]))

PairWeightIn(allNodes, u, v) == PairWeight(allNodes, SignificantKeywords(allNodes), u, v)

SameUnder(allNodes, otherNodes, p) ==
    /\ CensusOf(allNodes) = CensusOf(otherNodes)
    /\ \A u \in DOMAIN p : SignificantSetIn(allNodes, u) = SignificantSetIn(otherNodes, p[u])
    /\ \A u \in DOMAIN p, v \in DOMAIN p :
          PairWeightIn(allNodes, u, v) = PairWeightIn(otherNodes, p[u], p[v])

\* C14: two runs over the same nodes presented in different orders give the
\* same census, the same significant keywords per node and the same weight
\* per pair of nodes.
OrderIndependence ==
    \A p \in Relabellings(nodes) :
        SameUnder(AllNodesOf(nodes), AllNodesOf(Relabelled(nodes, p)), p)

\* Neither node is the other's parent or ancestor, and they are not siblings
Unrelated(store, u, v) ==
    /\ u \notin AncestorsOf(store, v)
    /\ v \notin AncestorsOf(store, u)
    /\ ~(store[u].parentId # Null /\ store[u].parentId = store[v].parentId)

OneLink(index, u, v) ==
    /\ u \in DOMAIN index
    /\ Len(index[u]) = 1
    /\ index[u][1].target_id = v
    /\ index[u][1].relation = "is_related_to"
    /\ index[u][1].confidence = 1000

\* C15: for a corpus of exactly two nodes that share at least two
\* significant keywords and have no structural relation, the index holds
\* one link in each direction, with relation is_related_to and confidence 1.
TwoNodeScenario ==
    \A u \in DOMAIN nodes, v \in DOMAIN nodes :
        (/\ last.op = "mount"
         /\ DOMAIN nodes = {u, v}
         /\ u # v
         /\ Unrelated(nodes, u, v)
         /\ PairWeightIn(AllNodesOf(nodes), u, v) >= MIN_SHARED_KEYWORDS_THRESHOLD)
        => (DOMAIN crossref = {u, v} /\ OneLink(crossref, u, v) /\ OneLink(crossref, v, u))

\* The relations of the links from a to b in a list of links
RelationsTo(links, b) == {links[k].relation : k \in {j \in 1..Len(links) : links[j].target_id = b}}

RelationsBetween(index, a, b) == IF a \in DOMAIN index THEN RelationsTo(index[a], b) ELSE {}

ParentAndChildLinked(index, a, b) ==
    /\ RelationsBetween(index, a, b) = {"has_child"}
    /\ RelationsBetween(index, b, a) = {"is_child_of"}

\* C16: when a is the parent of b and the two share at least two significant
\* keywords, the link from a to b is has_child and the link from b to a is
\* is_child_of, both as generated and in the index.
StructuralRuleOutranks ==
    \A a \in DOMAIN nodes, b \in DOMAIN nodes :
        (/\ last.op = "mount"
         /\ nodes[b].parentId = a
         /\ PairWeightIn(AllNodesOf(nodes), a, b) >= MIN_SHARED_KEYWORDS_THRESHOLD)
        => /\ ParentAndChildLinked(TempCrossrefs(AllNodesOf(nodes)).tempCrossrefs, a, b)
           /\ ParentAndChildLinked(crossref, a, b)

\* The parent has the greater id, a type pair of TYPE_RULES links the two,
\* the child's text holds a relationship verb and the parent's id, and the
\* links are the structural ones
ChildBeforeParentLinked ==
    /\ last.op = "mount"
    /\ DOMAIN nodes = {"u1", "u2"}
    /\ nodes["u1"].parentId = "u2"
    /\ nodes["u1"].type = "Project" /\ nodes["u2"].type = "Goal"
    /\ nodes["u1"].description = " u2 " /\ nodes["u2"].description = "It fixes aaa"
    /\ ParentAndChildLinked(crossref, "u2", "u1")

\* The index is empty for a store of fewer than two nodes, and its keys and
\* link targets are ids of stored nodes
IndexWithin(index, store) ==
    /\ Cardinality(DOMAIN store) < 2 => DOMAIN index = {}
    /\ DOMAIN index \subseteq DOMAIN store
    /\ \A u \in DOMAIN index :
          \A k \in 1..Len(index[u]) : index[u][k].target_id \in DOMAIN store

\* C17: for a store of 0 or 1 node generateCrossReferences returns an empty
\* index; for any store the keys and link targets of the index it returns,
\* and of the index the handlers have loaded, are ids of stored nodes.
TrivialCorpus ==
    /\ IndexWithin(generateCrossReferences(nodes), nodes)
    /\ IndexWithin(crossref, nodes)

\* A delete took a corpus of nodes that share the keywords alpha and beta
\* down to one node, and the index loaded afterwards is empty
CorpusShrunkToOne ==
    /\ last.op = "delete"
    /\ last.confirmed
    /\ last.removed > 0
    /\ Cardinality(DOMAIN nodes) = 1
    /\ \A u \in DOMAIN nodes : nodes[u].description = "alpha beta"
    /\ DOMAIN crossref = {}

\* The links from a to b among the links generated before pruning
LinksTo(tempCrossrefs, a, b) ==
    IF a \in DOMAIN tempCrossrefs
    THEN Cardinality({k \in 1..Len(tempCrossrefs[a]) : tempCrossrefs[a][k].target_id = b})
    ELSE 0

\* What scoring every unordered pair gives: one link each way when the pair
\* shares at least MIN_SHARED_KEYWORDS_THRESHOLD significant keywords, none
\* otherwise
BruteForce(allNodes, significant, a, b) ==
    IF PairWeight(allNodes, significant, a, b) >= MIN_SHARED_KEYWORDS_THRESHOLD
    THEN 1 ELSE 0

SameAsBruteForce(allNodes, significant, scored) ==
    \A a \in DOMAIN NodeMapOf(allNodes), b \in DOMAIN NodeMapOf(allNodes) :
        a # b => LinksTo(scored.tempCrossrefs, a, b) = BruteForce(allNodes, significant, a, b)

\* C18: before pruning, every two distinct nodes have exactly one link each
\* way when they share at least 2 significant keywords and no link otherwise,
\* as scoring all unordered pairs would give.
CandidateGenerationExact ==
    SameAsBruteForce(AllNodesOf(nodes), SignificantKeywords(AllNodesOf(nodes)),
                     TempCrossrefs(AllNodesOf(nodes)))

\* Ascending code unit order, no word twice
StrictlySorted(s) == \A k \in 1..(Len(s) - 1) : StrLess(s[k], s[k + 1])

\* The link's provenance is the sorted intersection of the significant sets
\* of u and of the link's target, and holds no stop word and no short token
ProvenanceExact(allNodes, significant, stopWords, u, link) ==
    /\ SignificantSet(allNodes, significant, link.target_id) # {}
    /\ StrictlySorted(link.provenance)
    /\ Range(link.provenance) =
          SignificantSet(allNodes, significant, u)
              \cap SignificantSet(allNodes, significant, link.target_id)
    /\ \A k \in 1..Len(link.provenance) :
          /\ link.provenance[k] \notin stopWords
          /\ Len(link.provenance[k]) > 2

StopWordsExcluded(allNodes, significant, stopWords, index) ==
    \A u \in DOMAIN index :
        /\ SignificantSet(allNodes, significant, u) # {}
        /\ \A k \in 1..Len(index[u]) :
              ProvenanceExact(allNodes, significant, stopWords, u, index[u][k])

\* The base and dynamic stop words of a corpus
StopWordsOf(allNodes) == FinalStopWords(GlobalKeywordCounts(InitialKeywords(allNodes)))

\* C19: in the index generateCrossReferences returns, every key and every
\* link target has a non-empty significant keyword set, and every provenance
\* list is the sorted intersection of the significant sets of its two
\* endpoints, free of base and dynamic stop words and of tokens of length 2
\* or less.
StopWordExclusion ==
    StopWordsExcluded(AllNodesOf(nodes), SignificantKeywords(AllNodesOf(nodes)),
                      StopWordsOf(AllNodesOf(nodes)), generateCrossReferences(nodes))

\* The loaded index links a node whose text holds a dynamic stop word, and
\* leaves out a node whose keywords are all stop words
StopWordsLeftOut ==
    /\ last.op = "mount"
    /\ \E u \in DOMAIN crossref :
          Range(ExtractInitialKeywords(NodeText(nodes[u])))
              \cap DynamicStopWords(GlobalKeywordCounts(InitialKeywords(AllNodesOf(nodes)))) # {}
    /\ \E v \in DOMAIN nodes \ DOMAIN crossref :
          /\ ExtractInitialKeywords(NodeText(nodes[v])) # <<>>
          /\ Range(ExtractInitialKeywords(NodeText(nodes[v]))) \subseteq StopWordsOf(AllNodesOf(nodes))

\* The nodes whose text holds the keyword
NodesHolding(allNodes, keyword) ==
    {i \in 1..Len(allNodes) : Contains(ExtractInitialKeywords(NodeText(allNodes[i])), keyword)}

\* Every keyword of every node is counted, once per node that holds it
PresenceCounts(allNodes, census) ==
    /\ DOMAIN census.count =
          UNION {Range(ExtractInitialKeywords(NodeText(allNodes[i]))) : i \in 1..Len(allNodes)}
    /\ \A keyword \in DOMAIN census.count :
          census.count[keyword] = Cardinality(NodesHolding(allNodes, keyword))

\* The dynamic stop words are a tenth of the distinct keywords, rounded
\* down, and none of them is rarer than a keyword left out
TopFraction(census, dynamicStopWords) ==
    /\ dynamicStopWords \subseteq DOMAIN census.count
    /\ Cardinality(dynamicStopWords) = (10 * Cardinality(DOMAIN census.count)) \div 100
    /\ \A d \in dynamicStopWords, k \in DOMAIN census.count \ dynamicStopWords :
          census.count[d] >= census.count[k]

TopByPresence(allNodes, census) ==
    /\ PresenceCounts(allNodes, census)
    /\ TopFraction(census, DynamicStopWords(census))

\* C20: the census value of a keyword is the number of nodes whose text
\* holds it, the dynamic stop words are floor(0.10 * distinct keywords) many,
\* and each of them has a count at least that of every keyword left out.
DynamicStopWordsAreTop ==
    TopByPresence(AllNodesOf(nodes), GlobalKeywordCounts(InitialKeywords(AllNodesOf(nodes))))

\* A loaded corpus of twelve distinct keywords in which xxx, held by three
\* nodes and written twice in one of them, is the one dynamic stop word
MostPresentStopped ==
    /\ last.op = "mount"
    /\ \E u \in DOMAIN nodes : nodes[u].description = CensusTexts[4]
    /\ CensusOf(AllNodesOf(nodes))["xxx"] = 3
    /\ Cardinality(DOMAIN CensusOf(AllNodesOf(nodes))) = 12
    /\ DynamicStopWords(GlobalKeywordCounts(InitialKeywords(AllNodesOf(nodes)))) = {"xxx"}

\* a is a ReferenceValue whose description is the id of b, the two have no
\* structural relation and share enough significant keywords to be linked
PureReference(store, a, b) ==
    /\ a # b
    /\ store[a].type = "ReferenceValue"
    /\ store[a].description = b
    /\ Unrelated(store, a, b)
    /\ PairWeightIn(AllNodesOf(store), a, b) >= MIN_SHARED_KEYWORDS_THRESHOLD

\* C21: when a ReferenceValue node's description is exactly the id of
\* another node, the two qualify and have no structural relation, the link
\* from the first to the second is points_to and the link back is
\* is_pointed_to_by.
PureReferenceRule ==
    \A a \in DOMAIN nodes, b \in DOMAIN nodes :
        (last.op = "mount" /\ PureReference(nodes, a, b))
        => /\ RelationsBetween(crossref, a, b) = {"points_to"}
           /\ RelationsBetween(crossref, b, a) = {"is_pointed_to_by"}

\* The types of s and t are a key of TYPE_RULES, the two qualify, and
\* neither a structural rule nor an explicit reference applies to them
TypePair(store, s, t) ==
    /\ s # t
    /\ (store[s].type \o "->" \o store[t].type) \in DOMAIN TYPE_RULES
    /\ Unrelated(store, s, t)
    /\ ~Includes(store[s].description, t)
    /\ ~Includes(store[t].description, s)
    /\ PairWeightIn(AllNodesOf(store), s, t) >= MIN_SHARED_KEYWORDS_THRESHOLD

TypeRuleOf(store, s, t) == TYPE_RULES[store[s].type \o "->" \o store[t].type]

\* C22: for a pair whose types are an entry S->T = R of TYPE_RULES and to
\* which no structural or explicit-reference rule applies, the link from
\* the S node to the T node is R and the link back is the inverse of R,
\* whichever of the two ids sorts first.
TypePairRule ==
    \A s \in DOMAIN nodes, t \in DOMAIN nodes :
        (last.op = "mount" /\ TypePair(nodes, s, t))
        => /\ RelationsBetween(crossref, s, t) = {TypeRuleOf(nodes, s, t)}
           /\ RelationsBetween(crossref, t, s) = {InverseOf(TypeRuleOf(nodes, s, t))}

\* Inverting the inverse of the relation gives the relation back
Involutive(relation) == InverseOf(InverseOf(relation)) = relation

\* The link from b back to a, inverted, carries the relation of link
ReciprocalInverts(index, a, link) ==
    /\ link.target_id \in DOMAIN index
    /\ \A k \in 1..Len(index[link.target_id]) :
          index[link.target_id][k].target_id = a
          => InverseOf(index[link.target_id][k].relation) = link.relation

\* C23: the relation of every link of the index is its own double inverse,
\* and inverting the relation of the reciprocal link gives it back.
InverseConsistency ==
    \A a \in DOMAIN crossref :
        \A k \in 1..Len(crossref[a]) :
            /\ Involutive(crossref[a][k].relation)
            /\ ReciprocalInverts(crossref, a, crossref[a][k])

\* The directed links of the index, as <<source, target>> pairs
IndexLinks(index) ==
    UNION {{<<a, index[a][k].target_id>> : k \in 1..Len(index[a])} : a \in DOMAIN index}

\* The ids one link away from a member of S, in either direction
NextTo(index, S) ==
    {l[2] : l \in {m \in IndexLinks(index) : m[1] \in S}}
        \cup {l[1] : l \in {m \in IndexLinks(index) : m[2] \in S}}

\* The ids at distance at most radius from a member of S
RECURSIVE Ball(_, _, _)
Ball(index, S, radius) ==
    IF radius = 0 THEN S ELSE Ball(index, S \cup NextTo(index, S), radius - 1)

\* No id is in the queue twice
EnqueuedOnce(queue) ==
    \A i \in 1..Len(queue), j \in 1..Len(queue) : queue[i].id = queue[j].id => i = j

\* C24: the nodes handed to the graph are the nodes of the node map at
\* distance at most neighborhoodDistance from the selected node in the
\* index read as an undirected graph, and no id was enqueued twice.
NeighbourhoodNodes ==
    (last.op # "none" /\ selectedNode.id # Null)
    => /\ orrery.nodes = Ball(crossref, {selectedNode.id}, orrery.neighborhoodDistance)
                              \cap DOMAIN flatNodeMap(tree)
       /\ EnqueuedOnce(orrery.queue)
       /\ {orrery.queue[i].id : i \in 1..Len(orrery.queue)}
              = Ball(crossref, {selectedNode.id}, orrery.neighborhoodDistance)

\* With the horizon at 2 the graph shows a node two links away and leaves
\* out a linked node that is three links away
TwoLinksAway ==
    /\ orrery.neighborhoodDistance = 2
    /\ selectedNode.id # Null
    /\ orrery.nodes \ Ball(crossref, {selectedNode.id}, 1) # {}
    /\ Ball(crossref, {selectedNode.id}, 3) \ orrery.nodes # {}

\* C25: the links handed to the graph are the links of the index whose two
\* endpoints are both among the nodes handed to the graph.
NeighbourhoodEdges ==
    (last.op # "none" /\ selectedNode.id # Null)
    => orrery.links = {l \in IndexLinks(crossref) :
                          l[1] \in orrery.nodes /\ l[2] \in orrery.nodes}


\* C26: when onMount and every handler the user started have run to their
\* end (or were never started), the tree store is the forest loadTree builds
\* from the store contents and the crossref store is the index
\* generateCrossReferences computes from them, whatever the order in which
\* the handlers' steps were taken
DerivedStateFollows ==
    (\A h \in Handlers : Quiet(h) /\ running[0].pc = "done")
        => /\ tree = loadTree(nodes)
           /\ crossref = generateCrossReferences(nodes)


\* A delete and an add-child under the deleted node ran side by side: the
\* child was added after its parent was gone, and every handler has ended
OrphanAfterOverlap ==
    /\ \A h \in Handlers : running[h].pc = "done"
    /\ running[1].kind = "delete"
    /\ running[2].kind = "create"
    /\ running[2].arg.parentId = running[1].arg.nodeId
    /\ \E u \in DOMAIN nodes : nodes[u].parentId = running[1].arg.nodeId
    /\ running[1].arg.nodeId \notin DOMAIN nodes


\* The nodes of an imported tree as the claim states them: one record per
\* node, a child's parentId being its enclosing node's ID and its sortOrder
\* its position in Items
RECURSIVE FlattenedFrom(_, _, _)
FlattenedFrom(sourceNode, enclosingId, position) ==
    {NodeRecord(sourceNode.ID, enclosingId, sourceNode.Name, sourceNode.Type,
                sourceNode.Description, position)}
    \cup UNION {FlattenedFrom(sourceNode.Items[i], sourceNode.ID, i - 1) :
                   i \in 1..Len(sourceNode.Items)}

RECURSIVE NodeCount(_)
NodeCount(sourceNode) ==
    IF Len(sourceNode.Items) = 0 THEN 1
    ELSE 1 + NodeCount(sourceNode.Items[1])
           + NodeCount([sourceNode EXCEPT !.Items = Tail(@)]) - 1

NamesAnIdTwice(rootSourceNode) ==
    NodeCount(rootSourceNode)
        # Cardinality({r.id : r \in FlattenedFrom(rootSourceNode, Null, 0)})

ImportOutcome(rootSourceNode) ==
    LET flat == FlattenedFrom(rootSourceNode, Null, 0)
    IN  IF NamesAnIdTwice(rootSourceNode)
        THEN nodes' = nodes
        ELSE /\ DOMAIN nodes' = {r.id : r \in flat}
             /\ \A r \in flat : nodes'[r.id] = r

DropWalkEnds(nodeMap, targetId) ==
    AncestorWalk(targetId, Ghost, nodeMap, Cardinality(DOMAIN nodeMap) + 1) # "diverges"

\* Stores of up to FMaxNodes records with any parentIds: ids of the store
\* (cycles among them), null, and an id that names nothing
AnyStores ==
    UNION {{ForestStore(parentOf) :
                parentOf \in [ForestIds(n) -> ForestIds(n) \cup {Null, Ghost}]} :
           n \in 1..FMaxNodes}

NotificationIdentity ==
    /\ \A i, j \in 1..Len(notifications) :
          i # j => notifications[i].id # notifications[j].id
    /\ last.op \in {"dismiss", "timeout"} => last.removed = 1
    /\ timers \subseteq IdsOf(notifications)

\* The part of C30 about the timers Map alone
TimersOnlyForListed == timers \subseteq IdsOf(notifications)

\* The order of two records among siblings: by sortOrder, then by key
Before(store, u, v) ==
    \/ store[u].sortOrder < store[v].sortOrder
    \/ store[u].sortOrder = store[v].sortOrder /\ StrLess(u, v)

\* Two stores hold the same ids, with the same name, type, description and
\* parent per id and the same order of every two siblings
SameForest(before, after) ==
    /\ DOMAIN after = DOMAIN before
    /\ \A u \in DOMAIN before \cap DOMAIN after :
          /\ after[u].name = before[u].name
          /\ after[u].type = before[u].type
          /\ after[u].description = before[u].description
          /\ after[u].parentId = before[u].parentId
    /\ \A u, v \in DOMAIN before \cap DOMAIN after :
          (u # v /\ before[u].parentId = before[v].parentId /\ Before(before, u, v))
              => Before(after, u, v)

\* C29: the import of the tree the export wrote leaves a store with the same
\* ids, the same name, type and description per node, the same parents and
\* the same order of siblings as the store that was exported
ExportImportRoundTrip ==
    [][ImportExported => SameForest(nodes, nodes')]_vars


====
